---- MODULE Spec2Model ----
(***************************************************************************)
(* Model of the sweep-points consistency harness                           *)
(* (src/tests/sweep-points/src/main.rs).                                   *)
(*                                                                         *)
(* Two tokio tasks share one tokio::sync::Mutex (the transfer gate):       *)
(*   - the main task: round loop, sweep_points, check_points;              *)
(*   - the spawned task run_transfers (the transfer coordinator).          *)
(* Every remote call is one step whose outcome the store chooses.  Sleeps  *)
(* take no state of their own unless a property speaks about them.         *)
(*                                                                         *)
(* Further specifications of this module, each over its own variables:     *)
(*   - FaultlessSpec: the main task against a store without faults;        *)
(*   - PeerCheckSpec: check_points_on_peer on any scroll response;         *)
(*   - FormatRangesSpec: format_ranges, iteration by iteration;            *)
(*   - CounterSpec: the main task of payload-counters                      *)
(*     (src/tests/payload-counters/src/main.rs);                           *)
(*   - CoordinatorSpec: run_transfers on its own, for any number of nodes; *)
(*   - ConsistencySpec: check_point_consistency of point-consistency-test  *)
(*     (src/tests/point-consistency-test/src/main.rs);                     *)
(*   - CounterTransfersSpec: payload-counters with its run_transfers task; *)
(*   - CheckAttemptsSpec: the sweep with check_points called with any      *)
(*     number of attempts;                                                 *)
(*   - PayloadCheckSpec: check_points of list-inconsistent-payloads        *)
(*     (src/tests/list-inconsistent-payloads/src/main.rs);                 *)
(*   - CheckHostSpec: check_host of list-missing-points                    *)
(*     (src/tests/list-missing-points/src/main.rs).                        *)
(***************************************************************************)
EXTENDS Integers, Sequences, FiniteSets, TLC

(***************************************************************************)
(* Program constants.  The large ones are scaled down; the loops over them *)
(* keep their shape.                                                       *)
(***************************************************************************)
\* HOSTS.len()
HostCount == 3
\* POINT_COUNT (200 in the source): the window size W
POINT_COUNT == 3
\* BATCH_SIZE (25 in the source)
BATCH_SIZE == 2
\* UPDATE_RETRIES (100 in the source)
UPDATE_RETRIES == 2
\* CHECK_RETRIES (25 in the source)
CHECK_RETRIES == 3
\* `for round in 0..` is unbounded; the model stops before round MaxRound
MaxRound == 2

Hosts == 0 .. (HostCount - 1)
TRANSFER_METHODS == {"StreamRecords", "WalDelta"}
\* value of a node-valued local that is not set: no index of HOSTS
NoHost == HostCount

VARIABLES
    \* main task: round controller, sweep_points, check_points
    pc_main,             \* where the main task is
    round,               \* `round` of main's loop
    batch,               \* index of the current chunk of delete_ids / upsert_ids
    client_index,        \* node chosen for the current batch
    retries_left,        \* loop variable of the update retry loop
    check_retries_left,  \* loop variable of check_points' attempt loop
    peer,                \* index i of check_points' loop over clients
    errors,              \* check_points' errors vector (the failing hosts, in push order)
    transfer_lock_guard, \* check_points' Option<MutexGuard>: TRUE when Some
    check_result,        \* value check_points returned to main: "none" | "Ok" | "Err"
    panic_cause,         \* why the main task panicked, "none" while it has not
    \* spawned task run_transfers
    pc_tr,               \* where run_transfers is
    from,                \* chosen source node
    to,                  \* chosen destination node
    method,              \* chosen transfer method
    tr_panic,            \* why run_transfers panicked, "none" while it has not
    tr_trace,            \* the outcome of the last request and the counts that
                         \* wait_for_transfer_count has returned on since, in
                         \* order; forgotten when the next nodes are selected
    \* tokio::sync::Mutex<()> transfer_lock
    lock_owner,          \* "none" | "checker" | "injector": who has the permit
    lock_waiters,        \* FIFO queue of tasks waiting in lock()
    \* the store, as the harness observes it
    store_transfer,      \* "idle" | "accepted" | "active" (shard_transfers.len() = 1)
    population,          \* per node, the IDs a store without faults holds
    \* history of the current batch / round / check_points call
    batch_fail,          \* failed attempts of the current batch
    acked_deletes,       \* delete batches acknowledged in this round
    issued_upserts,      \* upsert calls issued in this round
    deleted,             \* IDs of the delete batches acknowledged in this round
    upserted,            \* IDs of the upsert batches acknowledged in this round
    cycles,              \* check cycles completed in this check_points call
    fail_cycles,         \* of those, the cycles with at least one failing node
    gate_acquired,       \* times this check_points call acquired the gate
    verdicts,            \* what check_points_on_peer returned for the nodes of
                         \* the current cycle, in call order
    \* one call of format_ranges(ids)
    f_pc,                \* "idle" (no call) | "loop" | "returned"
    f_ids,               \* the argument
    f_i,                 \* position of the `for id in ids` loop (from 1)
    f_ranges,            \* `ranges`: the formatted ranges pushed so far
    f_range,             \* `range`: <<>> for None, <<start, end>> for Some(start..end)
    f_out,               \* the returned String
    \* one call of check_points_on_peer(client, sweep_start)
    p_pc,                \* "idle" (no call) | "called" | "returned"
    p_fetched,           \* the IDs of the scroll response, in its order
    p_sweep_start,       \* the argument
    p_result,            \* "none" | "Ok" | "Err" | "Panic"
    p_report,            \* the values the Err message is formatted from
    debug_assertions,    \* the build: TRUE when debug_assert! is compiled in
    \* payload-counters: main, touch_points, check_points
    c_pc,                \* "idle" (not run) | "round_start" | "touch_read" |
                         \* "touch_upsert" | "check" | "check_end" | "panicked"
    c_round,             \* `round` of main's loop
    c_batch,             \* index of the current chunk of ids
    c_client,            \* client_index of the current touch batch
    c_payload_values,    \* touch_points' HashMap of the values the read returned
    c_points,            \* the counters of `points`, the upsert's content, by ID
    c_retries_left,      \* loop variable of the upsert retry loop
    c_peer,              \* index i of main's loop over clients
    c_expected,          \* check_points' argument `expected`
    c_errors,            \* main's errors vector (the failing hosts, in push order)
    c_result,            \* what the last check_points call returned, "none" before
    c_panic,             \* why main panicked, "none" while it has not
    \* history of the current round
    c_touched,           \* touch_points calls that have returned since the start
    c_reads,             \* chunks whose read has returned in this touch round
    c_returned,          \* IDs the responses of the last check_points call held
    c_observed,          \* counters the responses of this round's check held
    \* run_transfers on its own
    clients_len,         \* clients.len(): the number of handles it is given
    refused_run,         \* transfer requests refused in a row up to now
    check_attempts,      \* the `attempts` main passes to check_points
    \* point-consistency-test: check_point_consistency(points)
    x_pc,                \* "idle" (not run) | "compare" | "report" | "returned" |
                         \* "panicked"
    x_points,            \* the argument: per node the fetched points, sorted by ID
    x_i,                 \* index i of the loop over points.windows(2)
    x_pos,               \* position of the loop over the zipped pair (from 1)
    wrong_vector_counts, \* per adjacent pair, the vector tally
    wrong_payload_counts, \* per adjacent pair, the payload tally
    \* list-inconsistent-payloads: check_points(clients)
    y_pc,                \* "idle" (not run) | "loop" | "fetched" | "returned" |
                         \* "panicked"
    y_remaining,         \* `remaining`: the IDs not yet taken into the working set
    y_ids,               \* `ids`: the working set of the iteration
    y_payloads,          \* `payloads`: per node the map from ID to payload
    y_retry,             \* `retry`
    y_consistent,        \* history: IDs found consistent in some iteration
    \* list-missing-points: check_host(host)
    m_pc,                \* "idle" (not run) | "scroll" | "retry" | "returned" |
                         \* "failed"
    m_batch,             \* index of the current chunk of ids.chunks(BATCH_SIZE)
    m_response,          \* IDs of `response.result` of the chunk's scroll
    m_tmp_missing,       \* `tmp_missing`
    m_missing_ids,       \* `missing_ids`
    m_points,            \* IDs of `points`
    m_seen,              \* history: IDs of the chunk some response has held
    m_retries            \* history: get_points calls made for the chunk

main_vars == <<pc_main, round, batch, client_index, retries_left,
               check_retries_left, peer, errors, transfer_lock_guard,
               check_result, panic_cause>>
tr_vars == <<pc_tr, from, to, method, tr_panic, tr_trace>>
lock_vars == <<lock_owner, lock_waiters>>
hist_vars == <<batch_fail, acked_deletes, issued_upserts, deleted, upserted,
               cycles, fail_cycles, gate_acquired>>
store_vars == <<store_transfer, population>>
\* state of the other programs of the repository
fmt_vars == <<f_pc, f_ids, f_i, f_ranges, f_range, f_out>>
peer_vars == <<p_pc, p_fetched, p_sweep_start, p_result, p_report, debug_assertions>>
counter_vars == <<c_pc, c_round, c_batch, c_client, c_payload_values, c_points,
                  c_retries_left, c_peer, c_expected, c_errors, c_result, c_panic,
                  c_touched, c_reads, c_returned, c_observed>>
coord_vars == <<clients_len, refused_run, check_attempts>>
cons_vars == <<x_pc, x_points, x_i, x_pos, wrong_vector_counts, wrong_payload_counts>>
pay_vars == <<y_pc, y_remaining, y_ids, y_payloads, y_retry, y_consistent>>
miss_vars == <<m_pc, m_batch, m_response, m_tmp_missing, m_missing_ids, m_points,
               m_seen, m_retries>>
list_vars == <<pay_vars, miss_vars>>
prog_vars == <<fmt_vars, peer_vars, counter_vars, coord_vars, cons_vars, list_vars>>
\* what only the check cycle and steps of the other programs change
other_vars == <<prog_vars, verdicts>>
sweep_vars == <<main_vars, tr_vars, lock_vars, store_vars, hist_vars, verdicts>>
vars == <<sweep_vars, prog_vars>>

(***************************************************************************)
(* Pure helpers                                                            *)
(***************************************************************************)
Min2(a, b) == IF a <= b THEN a ELSE b

\* a..b-1 collected into a Vec (Range<u64>::collect)
RangeSeq(a, b) == [i \in 1 .. (IF b > a THEN b - a ELSE 0) |-> a + i - 1]

\* u64::saturating_sub
saturating_sub(a, b) == IF a >= b THEN a - b ELSE 0

SweepStart(r) == POINT_COUNT * r

\* the delete range starts one ID late
delete_ids_Late(sweep_start) ==
    RangeSeq(saturating_sub(sweep_start, POINT_COUNT) + 1, sweep_start)

delete_ids(sweep_start) ==
    RangeSeq(saturating_sub(sweep_start, POINT_COUNT), sweep_start)

\* the upsert range written with `..=`
upsert_ids_Inclusive(sweep_start) ==
    RangeSeq(sweep_start, sweep_start + POINT_COUNT + 1)

upsert_ids(sweep_start) == RangeSeq(sweep_start, sweep_start + POINT_COUNT)

\* a last chunk shorter than BATCH_SIZE is left out
NumChunks_Floor(ids) == Len(ids) \div BATCH_SIZE

\* number of chunks of ids.chunks(BATCH_SIZE)
NumChunks(ids) == (Len(ids) + BATCH_SIZE - 1) \div BATCH_SIZE

\* k-th chunk (k from 0) of ids.chunks(BATCH_SIZE)
Chunk(ids, k) ==
    SubSeq(ids, k * BATCH_SIZE + 1, Min2((k + 1) * BATCH_SIZE, Len(ids)))

RECURSIVE Insert(_, _)
Insert(x, s) ==
    IF s = <<>> THEN <<x>>
    ELSE IF x <= Head(s) THEN <<x>> \o s
    ELSE <<Head(s)>> \o Insert(x, Tail(s))

\* ids.sort_unstable()
RECURSIVE sort_unstable(_)
sort_unstable(s) == IF s = <<>> THEN <<>> ELSE Insert(Head(s), sort_unstable(Tail(s)))

\* debug_assert!(ids.windows(2).all(|w| w[0] < w[1])): evaluated only by a
\* build with debug assertions
DebugAssertFails(ids, debug) ==
    debug /\ \E i \in 1 .. (Len(ids) - 1) : ~(ids[i] < ids[i + 1])

\* check_points_on_peer on the IDs a scroll returned, in a build with (debug)
\* or without debug assertions: "Ok", "Err", or "Panic"
check_points_on_peer(fetched, sweep_start, debug) ==
    LET ids == sort_unstable(fetched) IN
    IF ids = <<>> THEN "Err"
    ELSE IF DebugAssertFails(ids, debug) THEN "Panic"
    ELSE LET min == ids[1]
             max == ids[Len(ids)]
             wrong_lowest == min # sweep_start
             wrong_highest == max # sweep_start + POINT_COUNT - 1
             wrong_count == Len(ids) # POINT_COUNT
         IN IF wrong_lowest \/ wrong_highest \/ wrong_count THEN "Err" ELSE "Ok"

\* the elements of a Vec
SeqToSet(s) == {s[i] : i \in 1 .. Len(s)}

\* ascending sequence of the elements of a finite set of numbers
RECURSIVE SetToSeq(_)
SetToSeq(S) ==
    IF S = {} THEN <<>>
    ELSE LET m == CHOOSE x \in S : \A y \in S : x <= y
         IN <<m>> \o SetToSeq(S \ {m})

\* the IDs a scroll response is made of in the round starting at sweep_start:
\* the last ID of the previous window, the current window, the ID after it
ScrollIds(sweep_start) == saturating_sub(sweep_start, 1) .. (sweep_start + POINT_COUNT)

\* What a scroll of a node may return in the round starting at sweep_start: any
\* set of these IDs, or such a set with one of its IDs twice.
ScrollResults(sweep_start) ==
    {SetToSeq(S) : S \in SUBSET ScrollIds(sweep_start)}
    \cup UNION {{Insert(x, SetToSeq(S)) : x \in S} : S \in SUBSET ScrollIds(sweep_start)}

(***************************************************************************)
(* tokio::sync::Mutex: one permit, FIFO waiters; unlock hands the permit   *)
(* to the first waiter.                                                    *)
(***************************************************************************)
\* task t calls lock(): takes the permit if it is free, queues otherwise
MutexLock(t) ==
    IF lock_owner = "none"
    THEN /\ lock_owner' = t
         /\ lock_waiters' = lock_waiters
    ELSE /\ lock_owner' = lock_owner
         /\ lock_waiters' = Append(lock_waiters, t)

\* the guard is dropped
MutexUnlock ==
    IF lock_waiters = <<>>
    THEN /\ lock_owner' = "none"
         /\ lock_waiters' = lock_waiters
    ELSE /\ lock_owner' = Head(lock_waiters)
         /\ lock_waiters' = Tail(lock_waiters)

\* the suspended lock() of task t can return: the permit was handed to t
MutexGranted(t) ==
    /\ lock_owner = t
    /\ \A i \in 1 .. Len(lock_waiters) : lock_waiters[i] # t

\* the process is running: a panic of the main task ends it
Alive == pc_main # "panicked"

\* format_ranges is not running
FormatRangesIdle ==
    /\ f_pc = "idle"
    /\ f_ids = <<>>
    /\ f_i = 1
    /\ f_ranges = <<>>
    /\ f_range = <<>>
    /\ f_out = ""

\* main of sweep-points up to the round loop
SweepInit ==
    /\ pc_main = "round_start"
    /\ round = 0
    /\ batch = 0
    /\ client_index = NoHost
    /\ retries_left = 0
    /\ check_retries_left = 0
    /\ peer = 0
    /\ errors = <<>>
    /\ transfer_lock_guard = FALSE
    /\ check_result = "none"
    /\ panic_cause = "none"
    /\ pc_tr = "start"
    /\ from = NoHost
    /\ to = NoHost
    /\ method = "none"
    /\ tr_panic = "none"
    /\ tr_trace = <<>>
    /\ lock_owner = "none"
    /\ lock_waiters = <<>>
    /\ store_transfer = "idle"
    /\ batch_fail = 0
    /\ acked_deletes = 0
    /\ issued_upserts = 0
    /\ deleted = {}
    /\ upserted = {}
    /\ population = [n \in Hosts |-> {}]
    /\ cycles = 0
    /\ fail_cycles = 0
    /\ gate_acquired = 0
    /\ refused_run = 0
    /\ verdicts = <<>>

\* `clients` holds one handle per entry of HOSTS
AllClients == clients_len = HostCount

\* main calls check_points(&clients, sweep_start, CHECK_RETRIES, ..)
CheckRetriesPassed == check_attempts = CHECK_RETRIES

\* point-consistency-test is not run
ConsistencyIdle ==
    /\ x_pc = "idle"
    /\ x_points = <<>>
    /\ x_i = 0
    /\ x_pos = 0
    /\ wrong_vector_counts = <<>>
    /\ wrong_payload_counts = <<>>

\* list-inconsistent-payloads is not run
PayloadCheckIdle ==
    /\ y_pc = "idle"
    /\ y_remaining = <<>>
    /\ y_ids = <<>>
    /\ y_payloads = <<>>
    /\ y_retry = 0
    /\ y_consistent = {}

\* list-missing-points is not run
MissingCheckIdle ==
    /\ m_pc = "idle"
    /\ m_batch = 0
    /\ m_response = <<>>
    /\ m_tmp_missing = <<>>
    /\ m_missing_ids = <<>>
    /\ m_points = <<>>
    /\ m_seen = {}
    /\ m_retries = 0

\* no Err message was built
NoReport == [expect |-> <<0, 0>>, got |-> "", len |-> 0]

\* check_points_on_peer is not called on its own
PeerCheckIdle ==
    /\ p_pc = "idle"
    /\ p_fetched = <<>>
    /\ p_sweep_start = 0
    /\ p_result = "none"
    /\ p_report = NoReport
    /\ debug_assertions = FALSE

\* the locals of payload-counters' main before its round loop
CounterLocalsInit ==
    /\ c_round = 0
    /\ c_batch = 0
    /\ c_client = NoHost
    /\ c_payload_values = <<>>
    /\ c_points = <<>>
    /\ c_retries_left = 0
    /\ c_peer = 0
    /\ c_expected = 0
    /\ c_errors = <<>>
    /\ c_result = "none"
    /\ c_panic = "none"
    /\ c_touched = 0
    /\ c_reads = {}
    /\ c_returned = {}
    /\ c_observed = {}

\* payload-counters is not run
CounterIdle == c_pc = "idle" /\ CounterLocalsInit

Init == SweepInit /\ AllClients /\ CheckRetriesPassed /\ ConsistencyIdle /\ PayloadCheckIdle /\ MissingCheckIdle /\ FormatRangesIdle /\ PeerCheckIdle /\ CounterIdle

(***************************************************************************)
(* Main task: sweep_points                                                 *)
(***************************************************************************)
\* first value of `for retries_left in (0..UPDATE_RETRIES).rev()`
FirstRetriesLeft_Inclusive == UPDATE_RETRIES

FirstRetriesLeft == UPDATE_RETRIES - 1

\* one iteration of `for batch_ids in ids.chunks(BATCH_SIZE)` starts: the node
\* is chosen once, then the retry loop starts
BeginBatch(phase, k) ==
    /\ pc_main' = phase
    /\ batch' = k
    /\ \E c \in Hosts : client_index' = c
    /\ retries_left' = FirstRetriesLeft
    /\ batch_fail' = 0

\* first value of `for retries_left in (0..attempts).rev()`
FirstCheckRetriesLeft_Inclusive(attempts) == attempts

FirstCheckRetriesLeft(attempts) == attempts - 1

\* check_points returns `result`: its locals, the guard among them, are dropped
ReturnFromCheck(result) ==
    /\ pc_main' = "check_returned"
    /\ check_result' = result
    /\ transfer_lock_guard' = FALSE
    /\ IF transfer_lock_guard THEN MutexUnlock ELSE UNCHANGED lock_vars

\* sweep_points returned: its locals are gone
SweepReturned ==
    /\ batch' = 0
    /\ client_index' = NoHost
    /\ retries_left' = 0
    /\ batch_fail' = 0

\* check_points is entered with a gate it might already find free
CheckPointsEntry_TryLock(attempts) ==
    /\ SweepReturned
    /\ errors' = <<>>
    /\ cycles' = 0
    /\ fail_cycles' = 0
    /\ peer' = 0
    /\ check_retries_left' = FirstCheckRetriesLeft(attempts)
    /\ pc_main' = "check_peer"
    /\ check_result' = check_result
    /\ IF lock_owner = "none"
       THEN /\ transfer_lock_guard' = TRUE
            /\ lock_owner' = "checker"
            /\ lock_waiters' = lock_waiters
            /\ gate_acquired' = 1
       ELSE /\ transfer_lock_guard' = FALSE
            /\ UNCHANGED lock_vars
            /\ gate_acquired' = 0

\* the attempt loop runs its body once before it looks at attempts
CheckPointsEntry_AtLeastOnce(attempts) ==
    /\ SweepReturned
    /\ errors' = <<>>
    /\ cycles' = 0
    /\ fail_cycles' = 0
    /\ gate_acquired' = 0
    /\ peer' = 0
    /\ check_retries_left' = IF attempts > 0 THEN FirstCheckRetriesLeft(attempts) ELSE 0
    /\ pc_main' = "check_peer"
    /\ transfer_lock_guard' = FALSE
    /\ check_result' = check_result
    /\ UNCHANGED lock_vars

\* check_points(clients, sweep_start, attempts, transfer_lock) up to its first
\* await: errors = vec![], transfer_lock_guard = None, the attempt loop starts
\* (and ends at once when attempts = 0)
CheckPointsEntry(attempts) ==
    /\ SweepReturned
    /\ errors' = <<>>
    /\ cycles' = 0
    /\ fail_cycles' = 0
    /\ gate_acquired' = 0
    /\ peer' = 0
    /\ IF attempts > 0
       THEN /\ check_retries_left' = FirstCheckRetriesLeft(attempts)
            /\ pc_main' = "check_peer"
            /\ transfer_lock_guard' = FALSE
            /\ check_result' = check_result
            /\ UNCHANGED lock_vars
       ELSE /\ check_retries_left' = 0
            /\ ReturnFromCheck("Err")

\* the delete loop is left as soon as one batch was acknowledged
DeleteLoopDone_FirstBatch(k, n) == TRUE

\* the delete loop is over after its last chunk
DeleteLoopDone(k, n) == k + 1 >= n

\* main's loop body up to sweep_points' first await
SweepPoints ==
    /\ Alive
    /\ pc_main = "round_start"
    /\ round < MaxRound
    /\ IF NumChunks(delete_ids(SweepStart(round))) > 0
       THEN BeginBatch("sweep_delete", 0)
       ELSE BeginBatch("sweep_upsert", 0)
    /\ UNCHANGED <<round, check_retries_left, peer, errors, transfer_lock_guard,
                   check_result, panic_cause, tr_vars, lock_vars, store_vars, other_vars,
                   acked_deletes, deleted, upserted, issued_upserts, cycles, fail_cycles,
                   gate_acquired>>

\* the IDs of the batch the delete loop is at
DeleteBatchIds == SeqToSet(Chunk(delete_ids(SweepStart(round)), batch))

\* the IDs of the batch the upsert loop is at
UpsertBatchIds == SeqToSet(Chunk(upsert_ids(SweepStart(round)), batch))

\* one delete_points call of the current delete batch and the match on its
\* result, as the harness sees it
DeletePointsCall(result) ==
    /\ Alive
    /\ pc_main = "sweep_delete"
    /\ IF result = "Ok"
         THEN /\ acked_deletes' = acked_deletes + 1
              /\ deleted' = deleted \cup DeleteBatchIds
              /\ IF DeleteLoopDone(batch, NumChunks(delete_ids(SweepStart(round))))
                 THEN BeginBatch("sweep_upsert", 0)
                 ELSE BeginBatch("sweep_delete", batch + 1)
              /\ UNCHANGED panic_cause
         ELSE /\ batch_fail' = batch_fail + 1
              /\ UNCHANGED <<acked_deletes, deleted, batch, client_index>>
              /\ IF retries_left > 0
                 THEN /\ retries_left' = retries_left - 1
                      /\ UNCHANGED <<pc_main, panic_cause>>
                 ELSE /\ pc_main' = "panicked"
                      /\ panic_cause' = "delete"
                      /\ UNCHANGED retries_left
    /\ UNCHANGED <<round, check_retries_left, peer, errors, transfer_lock_guard,
                   check_result, tr_vars, lock_vars, store_transfer, other_vars,
                   issued_upserts, upserted, cycles, fail_cycles, gate_acquired>>

\* the call against a store of which nothing is assumed
DeletePoints ==
    \E result \in {"Ok", "Err"} : DeletePointsCall(result) /\ UNCHANGED population

\* one upsert_points call of the current upsert batch and the match on its
\* result; after the last batch sweep_points returns and check_points starts
UpsertPointsCall(result) ==
    /\ Alive
    /\ pc_main = "sweep_upsert"
    /\ issued_upserts' = issued_upserts + 1
    /\ IF result = "Ok"
         THEN /\ UNCHANGED panic_cause
              /\ upserted' = upserted \cup UpsertBatchIds
              /\ IF batch + 1 >= NumChunks(upsert_ids(SweepStart(round)))
                 THEN CheckPointsEntry(check_attempts)
                 ELSE /\ BeginBatch("sweep_upsert", batch + 1)
                      /\ UNCHANGED <<check_retries_left, peer, errors,
                                     transfer_lock_guard, check_result, lock_vars,
                                     cycles, fail_cycles, gate_acquired>>
         ELSE /\ batch_fail' = batch_fail + 1
              /\ UNCHANGED <<upserted, batch, client_index, check_retries_left, peer, errors,
                             transfer_lock_guard, check_result, lock_vars,
                             cycles, fail_cycles, gate_acquired>>
              /\ IF retries_left > 0
                 THEN /\ retries_left' = retries_left - 1
                      /\ UNCHANGED <<pc_main, panic_cause>>
                 ELSE /\ pc_main' = "panicked"
                      /\ panic_cause' = "upsert"
                      /\ UNCHANGED retries_left
    /\ UNCHANGED <<round, tr_vars, store_transfer, other_vars, acked_deletes,
                   deleted>>

\* the call against a store of which nothing is assumed
UpsertPoints ==
    \E result \in {"Ok", "Err"} : UpsertPointsCall(result) /\ UNCHANGED population

(***************************************************************************)
(* Main task: check_points                                                 *)
(***************************************************************************)
\* check_points_on_peer panics: the unwinding drops check_points' guard
CheckPanic(cause) ==
    /\ pc_main' = "panicked"
    /\ panic_cause' = cause
    /\ transfer_lock_guard' = FALSE
    /\ IF transfer_lock_guard THEN MutexUnlock ELSE UNCHANGED lock_vars
    /\ UNCHANGED <<errors, peer, verdicts>>

\* what check_points_on_peer can come to on the scroll responses of Fetched.
\* The build is a choice per call here: it shows only on a response with a
\* duplicate, where it decides between the panic and a verdict.
PeerResults(Fetched, sweep_start) ==
    {check_points_on_peer(fetched, sweep_start, debug) :
        fetched \in Fetched, debug \in BOOLEAN}

\* PeerResults on the responses of ScrollResults, round by round
ScrollPeerResults ==
    [r \in 0 .. MaxRound |-> PeerResults(ScrollResults(SweepStart(r)), SweepStart(r))]

\* an entry is pushed for every node, whatever its verdict
CheckPointsOnPeerCall_PushAlways(Results) ==
    /\ Alive
    /\ pc_main = "check_peer"
    /\ \/ CheckPanic("scroll")
       \/ \E result \in Results :
            IF result = "Panic"
            THEN CheckPanic("debug_assert")
            ELSE /\ errors' = Append(errors, peer)
                 /\ verdicts' = Append(verdicts, result)
                 /\ IF peer + 1 < HostCount
                    THEN /\ peer' = peer + 1
                         /\ pc_main' = pc_main
                    ELSE /\ peer' = peer
                         /\ pc_main' = "check_cycle_end"
                 /\ UNCHANGED <<panic_cause, transfer_lock_guard, lock_vars>>
    /\ UNCHANGED <<round, batch, client_index, retries_left, check_retries_left,
                   check_result, tr_vars, store_vars, prog_vars, hist_vars>>

\* check_points_on_peer(client, sweep_start) for client `peer`, which comes to
\* one of Results: a failed scroll panics (expect) and the unwinding drops the
\* guard; a failed check pushes the host's entry onto errors
CheckPointsOnPeerCall(Results) ==
    /\ Alive
    /\ pc_main = "check_peer"
    /\ \/ CheckPanic("scroll")
       \/ \E result \in Results :
            IF result = "Panic"
            THEN CheckPanic("debug_assert")
            ELSE /\ errors' = IF result = "Err" THEN Append(errors, peer)
                              ELSE errors
                 /\ verdicts' = Append(verdicts, result)
                 /\ IF peer + 1 < HostCount
                    THEN /\ peer' = peer + 1
                         /\ pc_main' = pc_main
                    ELSE /\ peer' = peer
                         /\ pc_main' = "check_cycle_end"
                 /\ UNCHANGED <<panic_cause, transfer_lock_guard, lock_vars>>
    /\ UNCHANGED <<round, batch, client_index, retries_left, check_retries_left,
                   check_result, tr_vars, store_vars, prog_vars, hist_vars>>

\* the check against a store of which nothing is assumed
CheckPointsOnPeer == CheckPointsOnPeerCall(ScrollPeerResults[round])

\* after the loop over the clients: return Ok when no node failed, go on to
\* the gate otherwise
CheckCycleEnd ==
    /\ Alive
    /\ pc_main = "check_cycle_end"
    /\ cycles' = cycles + 1
    /\ fail_cycles' = IF errors # <<>> THEN fail_cycles + 1 ELSE fail_cycles
    /\ IF errors = <<>>
       THEN ReturnFromCheck("Ok")
       ELSE /\ pc_main' = "check_lock"
            /\ UNCHANGED <<check_result, transfer_lock_guard, lock_vars>>
    /\ UNCHANGED <<round, batch, client_index, retries_left, check_retries_left,
                   peer, errors, panic_cause, tr_vars, store_vars, other_vars,
                   batch_fail, acked_deletes, deleted, upserted, issued_upserts, gate_acquired>>

\* lock() is called in every failing cycle, whether or not the guard is held
CheckLock_Relock ==
    /\ Alive
    /\ pc_main = "check_lock"
    /\ MutexLock("checker")
    /\ IF lock_owner = "none"
       THEN /\ transfer_lock_guard' = TRUE
            /\ gate_acquired' = gate_acquired + 1
            /\ pc_main' = "check_delay"
       ELSE /\ pc_main' = "check_lock_wait"
            /\ UNCHANGED <<transfer_lock_guard, gate_acquired>>
    /\ UNCHANGED <<round, batch, client_index, retries_left, check_retries_left,
                   peer, errors, check_result, panic_cause, tr_vars,
                   store_vars, other_vars, batch_fail, acked_deletes, deleted, upserted, issued_upserts,
                   cycles, fail_cycles>>

\* `if transfer_lock_guard.is_none() { transfer_lock_guard.replace(lock().await) }`
\* up to the point where lock() either returns or suspends
CheckLock ==
    /\ Alive
    /\ pc_main = "check_lock"
    /\ IF transfer_lock_guard
       THEN /\ pc_main' = "check_delay"
            /\ UNCHANGED <<transfer_lock_guard, gate_acquired, lock_vars>>
       ELSE /\ MutexLock("checker")
            /\ IF lock_owner = "none"
               THEN /\ transfer_lock_guard' = TRUE
                    /\ gate_acquired' = gate_acquired + 1
                    /\ pc_main' = "check_delay"
               ELSE /\ pc_main' = "check_lock_wait"
                    /\ UNCHANGED <<transfer_lock_guard, gate_acquired>>
    /\ UNCHANGED <<round, batch, client_index, retries_left, check_retries_left,
                   peer, errors, check_result, panic_cause, tr_vars,
                   store_vars, other_vars, batch_fail, acked_deletes, deleted, upserted, issued_upserts,
                   cycles, fail_cycles>>

\* the suspended lock() returns once the permit was handed to the checker
CheckLockAcquired ==
    /\ Alive
    /\ pc_main = "check_lock_wait"
    /\ MutexGranted("checker")
    /\ transfer_lock_guard' = TRUE
    /\ gate_acquired' = gate_acquired + 1
    /\ pc_main' = "check_delay"
    /\ UNCHANGED <<round, batch, client_index, retries_left, check_retries_left,
                   peer, errors, check_result, panic_cause, tr_vars, lock_vars,
                   store_vars, other_vars, batch_fail, acked_deletes, deleted, upserted, issued_upserts,
                   cycles, fail_cycles>>

\* the guard lives only until the end of the failing iteration
CheckDelay_DropGuard ==
    /\ Alive
    /\ pc_main = "check_delay"
    /\ IF check_retries_left > 0
       THEN /\ check_retries_left' = check_retries_left - 1
            /\ errors' = <<>>
            /\ verdicts' = <<>>
            /\ peer' = 0
            /\ pc_main' = "check_peer"
            /\ transfer_lock_guard' = FALSE
            /\ IF transfer_lock_guard THEN MutexUnlock ELSE UNCHANGED lock_vars
            /\ UNCHANGED check_result
       ELSE /\ ReturnFromCheck("Err")
            /\ UNCHANGED <<check_retries_left, errors, peer, verdicts>>
    /\ UNCHANGED <<round, batch, client_index, retries_left, panic_cause, tr_vars,
                   store_vars, prog_vars, hist_vars>>

\* the window is upserted again before the next cycle
CheckDelay_Repair ==
    /\ Alive
    /\ pc_main = "check_delay"
    /\ issued_upserts' = issued_upserts + 1
    /\ IF check_retries_left > 0
       THEN /\ check_retries_left' = check_retries_left - 1
            /\ errors' = <<>>
            /\ verdicts' = <<>>
            /\ peer' = 0
            /\ pc_main' = "check_peer"
            /\ UNCHANGED <<check_result, transfer_lock_guard, lock_vars>>
       ELSE /\ ReturnFromCheck("Err")
            /\ UNCHANGED <<check_retries_left, errors, peer, verdicts>>
    /\ UNCHANGED <<round, batch, client_index, retries_left, panic_cause, tr_vars,
                   store_vars, prog_vars, batch_fail, acked_deletes, deleted, upserted,
                   cycles, fail_cycles, gate_acquired>>

\* end of a failing iteration: sleep CHECK_RETRY_DELAY and start the next cycle
\* (errors.clear()), or leave the loop and return Err(errors.join("\n"))
CheckDelay ==
    /\ Alive
    /\ pc_main = "check_delay"
    /\ IF check_retries_left > 0
       THEN /\ check_retries_left' = check_retries_left - 1
            /\ errors' = <<>>
            /\ verdicts' = <<>>
            /\ peer' = 0
            /\ pc_main' = "check_peer"
            /\ UNCHANGED <<check_result, transfer_lock_guard, lock_vars>>
       ELSE /\ ReturnFromCheck("Err")
            /\ UNCHANGED <<check_retries_left, errors, peer, verdicts>>
    /\ UNCHANGED <<round, batch, client_index, retries_left, panic_cause, tr_vars,
                   store_vars, prog_vars, hist_vars>>

\* the round counter skips a value
NextRound_SkipOne ==
    /\ round' = round + 2
    /\ pc_main' = "round_start"
    /\ acked_deletes' = 0
    /\ issued_upserts' = 0
    /\ deleted' = {}
    /\ upserted' = {}

\* `for round in 0..` takes its next value; the round's history starts empty
NextRound ==
    /\ round' = round + 1
    /\ pc_main' = "round_start"
    /\ acked_deletes' = 0
    /\ issued_upserts' = 0
    /\ deleted' = {}
    /\ upserted' = {}

\* the value check_points returned was matched; nothing of the call is left
CheckConsumed ==
    /\ check_result' = "none"
    /\ check_retries_left' = 0
    /\ peer' = 0
    /\ errors' = <<>>
    /\ cycles' = 0
    /\ fail_cycles' = 0
    /\ gate_acquired' = 0
    /\ verdicts' = <<>>

\* the round goes on whatever check_points returned
AfterCheck_IgnoreErr ==
    /\ Alive
    /\ pc_main = "check_returned"
    /\ NextRound
    /\ CheckConsumed
    /\ UNCHANGED <<panic_cause, batch, client_index, retries_left,
                   transfer_lock_guard, tr_vars, lock_vars, store_vars, prog_vars,
                   batch_fail>>

\* `if let Err(err) = check_points(..).await { panic!(..) }`, else the next round
AfterCheck ==
    /\ Alive
    /\ pc_main = "check_returned"
    /\ IF check_result = "Err"
       THEN /\ pc_main' = "panicked"
            /\ panic_cause' = "inconsistency"
            /\ UNCHANGED <<round, check_result, check_retries_left, peer, errors,
                           cycles, fail_cycles, gate_acquired, verdicts, acked_deletes, deleted, upserted,
                           issued_upserts>>
       ELSE /\ NextRound
            /\ CheckConsumed
            /\ UNCHANGED panic_cause
    /\ UNCHANGED <<batch, client_index, retries_left, transfer_lock_guard, tr_vars,
                   lock_vars, store_vars, prog_vars, batch_fail>>

(***************************************************************************)
(* Spawned task: run_transfers.  A panic of this task ends the task only:  *)
(* main drops the JoinHandle of tokio::spawn.                              *)
(***************************************************************************)
tr_rest == <<main_vars, hist_vars, population, other_vars>>

\* the handles run_transfers chooses from
Clients == 0 .. (clients_len - 1)

\* the task panics: it ends and its locals are gone
TrPanic(cause) ==
    /\ pc_tr' = "panicked"
    /\ tr_panic' = cause
    /\ from' = NoHost
    /\ to' = NoHost
    /\ method' = "none"
    /\ tr_trace' = <<>>

\* `if clients.len() < 2 { return }`, then sleep one second
TrStart ==
    /\ Alive
    /\ pc_tr = "start"
    /\ pc_tr' = IF clients_len < 2 THEN "returned" ELSE "select"
    /\ UNCHANGED <<from, to, method, tr_panic, tr_trace, lock_vars, store_transfer, tr_rest>>

\* the two nodes are drawn independently of each other
TrSelect_AnyPair ==
    /\ Alive
    /\ pc_tr = "select"
    /\ \E f \in Clients, t \in Clients, m \in TRANSFER_METHODS :
         /\ from' = f
         /\ to' = t
         /\ method' = m
    /\ pc_tr' = "info_from"
    /\ tr_trace' = <<>>
    /\ UNCHANGED tr_panic
    /\ UNCHANGED <<lock_vars, store_transfer, tr_rest>>

\* top of the loop: choose_multiple(.., 2) and TRANSFER_METHODS.choose(..)
TrSelect ==
    /\ Alive
    /\ pc_tr = "select"
    /\ \E f \in Clients, t \in Clients, m \in TRANSFER_METHODS :
         /\ f # t
         /\ from' = f
         /\ to' = t
         /\ method' = m
    /\ pc_tr' = "info_from"
    /\ tr_trace' = <<>>
    /\ UNCHANGED tr_panic
    /\ UNCHANGED <<lock_vars, store_transfer, tr_rest>>

\* from.collection_cluster_info(..).await.expect(..).peer_id
TrInfoFrom ==
    /\ Alive
    /\ pc_tr = "info_from"
    /\ \E result \in {"Ok", "Err"} :
         IF result = "Ok"
         THEN pc_tr' = "info_to" /\ UNCHANGED <<from, to, method, tr_panic, tr_trace>>
         ELSE TrPanic("cluster_info")
    /\ UNCHANGED <<lock_vars, store_transfer, tr_rest>>

\* to.collection_cluster_info(..).await.expect(..).peer_id
TrInfoTo ==
    /\ Alive
    /\ pc_tr = "info_to"
    /\ \E result \in {"Ok", "Err"} :
         IF result = "Ok"
         THEN pc_tr' = "lock" /\ UNCHANGED <<from, to, method, tr_panic, tr_trace>>
         ELSE TrPanic("cluster_info")
    /\ UNCHANGED <<lock_vars, store_transfer, tr_rest>>

\* the coordinator locks a mutex of its own instead of the shared one
TrLock_OwnMutex ==
    /\ Alive
    /\ pc_tr = "lock"
    /\ pc_tr' = "holding"
    /\ UNCHANGED <<from, to, method, tr_panic, tr_trace, lock_vars, store_transfer, tr_rest>>

\* transfer_lock.lock() up to the point where it returns or suspends
TrLock ==
    /\ Alive
    /\ pc_tr = "lock"
    /\ MutexLock("injector")
    /\ pc_tr' = IF lock_owner = "none" THEN "holding" ELSE "lock_wait"
    /\ UNCHANGED <<from, to, method, tr_panic, tr_trace, store_transfer, tr_rest>>

\* the suspended lock() returns once the permit was handed to the coordinator
TrLockAcquired ==
    /\ Alive
    /\ pc_tr = "lock_wait"
    /\ MutexGranted("injector")
    /\ pc_tr' = "holding"
    /\ UNCHANGED <<from, to, method, tr_panic, tr_trace, lock_vars, store_transfer, tr_rest>>

\* the guard is bound to a variable and lives on while the request is made
TrDrop_KeepGuard ==
    /\ Alive
    /\ pc_tr = "holding"
    /\ pc_tr' = "request"
    /\ UNCHANGED <<from, to, method, tr_panic, tr_trace, lock_vars, store_transfer, tr_rest>>

\* drop(..): the guard is released before the request is made
TrDrop ==
    /\ Alive
    /\ pc_tr = "holding"
    /\ MutexUnlock
    /\ pc_tr' = "request"
    /\ UNCHANGED <<from, to, method, tr_panic, tr_trace, store_transfer, tr_rest>>

\* from.update_collection_cluster_setup(ReplicateShard ..).await: the store
\* accepts the transfer (only when it runs none) or refuses the request
TrRequestCall(result) ==
    /\ Alive
    /\ pc_tr = "request"
    /\ IF result = "Ok"
       THEN /\ store_transfer = "idle"
            /\ store_transfer' = "accepted"
            /\ pc_tr' = "wait_1"
            /\ tr_trace' = <<"accepted">>
       ELSE /\ pc_tr' = "wait_0_failed"
            /\ tr_trace' = <<"refused">>
            /\ UNCHANGED store_transfer
    \* `to` and `method` are not read after the request
    /\ to' = NoHost
    /\ method' = "none"
    /\ UNCHANGED <<from, tr_panic, lock_vars, main_vars, hist_vars, population,
                   fmt_vars, peer_vars, counter_vars, cons_vars, list_vars, clients_len,
                   check_attempts, verdicts>>

TrRequest == \E result \in {"Ok", "Err"} : TrRequestCall(result) /\ UNCHANGED refused_run

\* cluster_info.shard_transfers.len() as `from` reports it
TransferCount == IF store_transfer = "active" THEN 1 ELSE 0

\* wait_for_transfer_count(from, count), one poll: the call fails (expect
\* panics), the count matches (return), or it does not: sleep and poll again,
\* or COLLECTION_POLL_MAX has passed and the task panics
wait_for_transfer_count(at, count, next) ==
    /\ Alive
    /\ pc_tr = at
    /\ \/ TrPanic("cluster_info")
       \/ /\ TransferCount = count
          /\ pc_tr' = next
          /\ tr_trace' = Append(tr_trace, count)
          /\ UNCHANGED <<from, to, method, tr_panic>>
       \/ /\ TransferCount # count
          /\ \/ pc_tr' = at /\ UNCHANGED <<from, to, method, tr_panic, tr_trace>>
             \/ TrPanic("timeout")
    /\ UNCHANGED <<lock_vars, store_transfer, tr_rest>>

\* after a refused request: wait_for_transfer_count(from, 0), then `continue`
TrWaitFailed_ThenWaitStart == wait_for_transfer_count("wait_0_failed", 0, "wait_1")

\* after a refused request: wait_for_transfer_count(from, 0), then `continue`
TrWaitFailed == wait_for_transfer_count("wait_0_failed", 0, "select")

\* the next iteration starts as soon as the transfer is seen
TrWaitStart_NoWaitDone == wait_for_transfer_count("wait_1", 1, "select")

\* wait_for_transfer_count(from, 1)
TrWaitStart == wait_for_transfer_count("wait_1", 1, "wait_0")

\* wait_for_transfer_count(from, 0), then the next iteration
TrWaitDone == wait_for_transfer_count("wait_0", 0, "select")

(***************************************************************************)
(* The store: an accepted transfer is registered, then completes.          *)
(***************************************************************************)
StoreRegister ==
    /\ Alive
    /\ store_transfer = "accepted"
    /\ store_transfer' = "active"
    /\ UNCHANGED <<tr_vars, lock_vars, tr_rest>>

StoreComplete ==
    /\ Alive
    /\ store_transfer = "active"
    /\ store_transfer' = "idle"
    /\ UNCHANGED <<tr_vars, lock_vars, tr_rest>>

(***************************************************************************)
(* Specifications                                                          *)
(***************************************************************************)
MainNext ==
    \/ SweepPoints
    \/ DeletePoints
    \/ UpsertPoints
    \/ CheckPointsOnPeer
    \/ CheckCycleEnd
    \/ CheckLock
    \/ CheckLockAcquired
    \/ CheckDelay
    \/ AfterCheck

TrNext ==
    \/ TrStart
    \/ TrSelect
    \/ TrInfoFrom
    \/ TrInfoTo
    \/ TrLock
    \/ TrLockAcquired
    \/ TrDrop
    \/ TrRequest
    \/ TrWaitFailed
    \/ TrWaitStart
    \/ TrWaitDone

StoreNext == StoreRegister \/ StoreComplete

Next == MainNext \/ TrNext \/ StoreNext

Spec == Init /\ [][Next]_vars

(***************************************************************************)
(* The sweep with check_points called with any number of attempts from 0   *)
(* to CHECK_RETRIES: what check_points does for each value of its          *)
(* `attempts` parameter.                                                   *)
(***************************************************************************)
CheckAttemptsInit ==
    /\ SweepInit
    /\ AllClients
    /\ check_attempts \in 0 .. CHECK_RETRIES
    /\ ConsistencyIdle
    /\ PayloadCheckIdle
    /\ MissingCheckIdle
    /\ FormatRangesIdle
    /\ PeerCheckIdle
    /\ CounterIdle

CheckAttemptsSpec == CheckAttemptsInit /\ [][Next]_vars

\* Both tasks are scheduled by the tokio runtime: a task that can run does run.
FairSpec == Spec /\ WF_vars(MainNext) /\ WF_vars(TrNext)

(***************************************************************************)
(* The sweep against a store without faults: a mutation acknowledged with  *)
(* Ok is applied on every node, one that failed may have been applied on   *)
(* any of the nodes (the retry repeats it), and a scroll of a node returns *)
(* the IDs the node holds.                                                 *)
(***************************************************************************)
\* the nodes a mutation with this result may have reached
Reached(result) == IF result = "Ok" THEN {Hosts} ELSE SUBSET Hosts

StoreDelete(result, ids) ==
    \E S \in Reached(result) :
        population' = [n \in Hosts |-> IF n \in S THEN population[n] \ ids
                                       ELSE population[n]]

StoreUpsert(result, ids) ==
    \E S \in Reached(result) :
        population' = [n \in Hosts |-> IF n \in S THEN population[n] \cup ids
                                       ELSE population[n]]

FaultlessDeletePoints ==
    \E result \in {"Ok", "Err"} :
        DeletePointsCall(result) /\ StoreDelete(result, DeleteBatchIds)

FaultlessUpsertPoints ==
    \E result \in {"Ok", "Err"} :
        UpsertPointsCall(result) /\ StoreUpsert(result, UpsertBatchIds)

FaultlessCheckPointsOnPeer ==
    CheckPointsOnPeerCall(PeerResults({SetToSeq(population[peer])}, SweepStart(round)))

FaultlessNext ==
    \/ SweepPoints
    \/ FaultlessDeletePoints
    \/ FaultlessUpsertPoints
    \/ FaultlessCheckPointsOnPeer
    \/ CheckCycleEnd
    \/ AfterCheck

FaultlessSpec == Init /\ [][FaultlessNext]_vars

(***************************************************************************)
(* format_ranges: one call on a strictly increasing list of IDs below      *)
(* u64::MAX, one step per iteration of its loop.  A String is a TLA+       *)
(* string: format! and join build it.                                      *)
(***************************************************************************)
\* largest ID of the lists the call is tried on
MaxId == 7

\* a list with runs of 3, 2 and 1 IDs, beyond MaxId
ExampleIds == <<3, 4, 5, 9, 10, 15>>

FormatRangesInputs == {SetToSeq(S) : S \in SUBSET (0 .. MaxId)} \cup {ExampleIds}

\* format!("{:?}", start..end)
RangeDebug(r) == ToString(r[1]) \o ".." \o ToString(r[2])

\* Vec<String>::join(",")
RECURSIVE Join(_)
Join(strs) ==
    IF strs = <<>> THEN ""
    ELSE IF Len(strs) = 1 THEN strs[1]
    ELSE strs[1] \o "," \o Join(Tail(strs))

\* every ID opens a range of its own
RangeExtends_Never(r, id) == FALSE

\* the match guard `r.end == *id`
RangeExtends(r, id) == r[2] = id

\* format_ranges(ids), the loop of FormatRangesStep from position i on
RECURSIVE FormatRangesFrom(_, _, _, _)
FormatRangesFrom(ids, i, ranges, range) ==
    IF i > Len(ids)
    THEN Join(IF range = <<>> THEN ranges ELSE Append(ranges, RangeDebug(range)))
    ELSE LET id == ids[i] IN
         IF range = <<>> THEN FormatRangesFrom(ids, i + 1, ranges, <<id, id + 1>>)
         ELSE IF RangeExtends(range, id)
         THEN FormatRangesFrom(ids, i + 1, ranges, <<range[1], id + 1>>)
         ELSE FormatRangesFrom(ids, i + 1, Append(ranges, RangeDebug(range)),
                               <<id, id + 1>>)

format_ranges(ids) == FormatRangesFrom(ids, 1, <<>>, <<>>)

fmt_rest == <<sweep_vars, peer_vars, counter_vars, coord_vars, cons_vars, list_vars>>

FormatRangesInit ==
    /\ SweepInit
    /\ AllClients
    /\ CheckRetriesPassed
    /\ ConsistencyIdle
    /\ PayloadCheckIdle
    /\ MissingCheckIdle
    /\ PeerCheckIdle
    /\ CounterIdle
    /\ f_pc = "loop"
    /\ f_ids \in FormatRangesInputs
    /\ f_i = 1
    /\ f_ranges = <<>>
    /\ f_range = <<>>
    /\ f_out = ""

\* one iteration of `for id in ids`
FormatRangesStep ==
    /\ f_pc = "loop"
    /\ f_i <= Len(f_ids)
    /\ LET id == f_ids[f_i] IN
         IF f_range = <<>>
         THEN /\ f_range' = <<id, id + 1>>
              /\ UNCHANGED f_ranges
         ELSE IF RangeExtends(f_range, id)
         THEN /\ f_range' = <<f_range[1], id + 1>>
              /\ UNCHANGED f_ranges
         ELSE /\ f_ranges' = Append(f_ranges, RangeDebug(f_range))
              /\ f_range' = <<id, id + 1>>
    /\ f_i' = f_i + 1
    /\ UNCHANGED <<f_pc, f_ids, f_out, fmt_rest>>

\* after the loop: the last range is pushed and the ranges are joined
FormatRangesReturn ==
    /\ f_pc = "loop"
    /\ f_i > Len(f_ids)
    /\ f_out' = Join(IF f_range = <<>> THEN f_ranges
                     ELSE Append(f_ranges, RangeDebug(f_range)))
    /\ f_pc' = "returned"
    /\ f_ranges' = <<>>
    /\ f_range' = <<>>
    /\ UNCHANGED <<f_ids, f_i, fmt_rest>>

FormatRangesNext == FormatRangesStep \/ FormatRangesReturn

FormatRangesSpec == FormatRangesInit /\ [][FormatRangesNext]_vars

(***************************************************************************)
(* check_points_on_peer on its own: one call on any scroll response, in    *)
(* either build.                                                           *)
(***************************************************************************)
\* longest response tried: one ID more than the window holds
MaxFetched == POINT_COUNT + 1

RECURSIVE SeqsUpTo(_, _)
SeqsUpTo(S, n) ==
    IF n = 0 THEN {<<>>}
    ELSE LET shorter == SeqsUpTo(S, n - 1)
         IN shorter \cup {Append(q, x) : q \in {t \in shorter : Len(t) = n - 1}, x \in S}

peer_rest == <<sweep_vars, fmt_vars, counter_vars, coord_vars, cons_vars, list_vars>>

PeerCheckInit ==
    /\ SweepInit
    /\ AllClients
    /\ CheckRetriesPassed
    /\ ConsistencyIdle
    /\ PayloadCheckIdle
    /\ MissingCheckIdle
    /\ FormatRangesIdle
    /\ CounterIdle
    /\ p_pc = "called"
    /\ p_sweep_start \in {SweepStart(r) : r \in 0 .. (MaxRound - 1)}
    /\ p_fetched \in SeqsUpTo(ScrollIds(p_sweep_start), MaxFetched)
    /\ p_result = "none"
    /\ p_report = NoReport
    /\ debug_assertions \in BOOLEAN

\* the arguments of the format! that builds the Err message of
\* check_points_on_peer: "expect {range:?}, got {} (len: {} vs {POINT_COUNT})"
ErrReport(fetched, sweep_start) ==
    LET ids == sort_unstable(fetched) IN
    [expect |-> <<sweep_start, sweep_start + POINT_COUNT>>,
     got |-> IF ids = <<>> THEN "zero points" ELSE format_ranges(ids),
     len |-> Len(ids)]

\* the call runs to its return or its panic
PeerCheck ==
    /\ p_pc = "called"
    /\ p_result' = check_points_on_peer(p_fetched, p_sweep_start, debug_assertions)
    /\ p_report' = IF p_result' = "Err" THEN ErrReport(p_fetched, p_sweep_start)
                   ELSE NoReport
    /\ p_pc' = "returned"
    /\ UNCHANGED <<p_fetched, p_sweep_start, debug_assertions, peer_rest>>

PeerCheckNext == PeerCheck

PeerCheckSpec == PeerCheckInit /\ [][PeerCheckNext]_vars

(***************************************************************************)
(* payload-counters (src/tests/payload-counters/src/main.rs): the main     *)
(* task: touch_points, then check_points on every node, round after round. *)
(* The store answers a get_points with points for any of the requested IDs *)
(* and any counters.                                                       *)
(***************************************************************************)
\* POINT_COUNT of payload-counters (200 in the source)
COUNTER_POINT_COUNT == 3
\* BATCH_SIZE of payload-counters (50 in the source)
COUNTER_BATCH_SIZE == 2
\* UPDATE_RETRIES of payload-counters (5 in the source)
COUNTER_UPDATE_RETRIES == 2
\* `for round in 0..` is unbounded; the model stops before this round
MaxCounterRound == 2
ALWAYS_CHECK == TRUE

\* (0..POINT_COUNT)
CounterIds == 0 .. (COUNTER_POINT_COUNT - 1)

\* number of chunks of ids.chunks(BATCH_SIZE)
CounterNumChunks ==
    (COUNTER_POINT_COUNT + COUNTER_BATCH_SIZE - 1) \div COUNTER_BATCH_SIZE

\* the IDs of the k-th chunk (k from 0) of ids.chunks(BATCH_SIZE)
CounterChunk(k) == {id \in CounterIds : id \div COUNTER_BATCH_SIZE = k}

\* the counters a point may come back with
CounterValues == 0 .. MaxCounterRound

\* response.result of a get_points for ids, as a map from the returned IDs to
\* their counters
GetResponses(ids) == UNION {[D -> CounterValues] : D \in SUBSET ids}

\* the counters of a response
Counters(response) == {response[id] : id \in DOMAIN response}

counter_rest == <<sweep_vars, fmt_vars, peer_vars, coord_vars, cons_vars, list_vars>>
c_touch_locals == <<c_client, c_payload_values, c_points, c_retries_left>>
c_check_locals == <<c_peer, c_expected, c_errors, c_result, c_returned, c_observed>>

CounterInit ==
    /\ SweepInit
    /\ AllClients
    /\ CheckRetriesPassed
    /\ ConsistencyIdle
    /\ PayloadCheckIdle
    /\ MissingCheckIdle
    /\ FormatRangesIdle
    /\ PeerCheckIdle
    /\ c_pc = "round_start"
    /\ CounterLocalsInit

CounterPanic(cause) ==
    /\ c_pc' = "panicked"
    /\ c_panic' = cause
    /\ UNCHANGED <<c_round, c_batch, c_touch_locals, c_check_locals, c_touched,
                   c_reads>>

\* one iteration of `for batch_ids in ids.chunks(BATCH_SIZE)` starts: the node
\* is chosen once for the batch
CounterBeginBatch(k) ==
    /\ c_pc' = "touch_read"
    /\ c_batch' = k
    /\ \E c \in Hosts : c_client' = c
    /\ c_payload_values' = <<>>
    /\ c_points' = <<>>
    /\ c_retries_left' = 0

\* main's loop body up to touch_points' first await
CounterTouchPoints ==
    /\ c_pc = "round_start"
    /\ c_round < MaxCounterRound
    /\ CounterBeginBatch(0)
    /\ c_reads' = {}
    /\ UNCHANGED <<c_round, c_check_locals, c_panic, c_touched, counter_rest>>

\* the new counter is the old one as it was read
NewCounter_Unchanged(old) == old

\* payload_values[id] + 1
NewCounter(old) == old + 1

\* the read of the batch (get_points, SCROLL = false) and the building of
\* `points`: a failed call panics (expect), and so does payload_values[id] for
\* an ID the response does not hold
CounterRead ==
    /\ c_pc = "touch_read"
    /\ \/ CounterPanic("get")
       \/ \E response \in GetResponses(CounterChunk(c_batch)) :
            IF DOMAIN response # CounterChunk(c_batch)
            THEN CounterPanic("missing_value")
            ELSE /\ c_payload_values' = response
                 /\ c_points' = [id \in CounterChunk(c_batch) |->
                                    NewCounter(response[id])]
                 /\ c_retries_left' = COUNTER_UPDATE_RETRIES - 1
                 /\ c_reads' = c_reads \cup {c_batch}
                 /\ c_pc' = "touch_upsert"
                 /\ UNCHANGED <<c_round, c_batch, c_client, c_check_locals,
                                c_panic, c_touched>>
    /\ UNCHANGED counter_rest

\* `if ALWAYS_CHECK || round % 10 == 0 || round < 5`
CounterChecked(r) == ALWAYS_CHECK \/ r % 10 = 0 \/ r < 5

\* `for round in 0..` takes its next value
CounterNextRound ==
    /\ c_round' = c_round + 1
    /\ c_pc' = "round_start"
    /\ c_batch' = 0
    /\ c_peer' = 0
    /\ c_expected' = 0
    /\ c_errors' = <<>>
    /\ c_result' = "none"
    /\ c_returned' = {}
    /\ c_observed' = {}

\* the check expects the index of the round
CounterExpected_RoundIndex(r) == r

\* `round as i64 + 1`
CounterExpected(r) == r + 1

\* touch_points returned; main starts the check of the round, if it has one,
\* with check_points(clients[0], round + 1)
CounterTouchReturned ==
    /\ c_touched' = c_touched + 1
    /\ c_client' = NoHost
    /\ c_payload_values' = <<>>
    /\ c_points' = <<>>
    /\ c_retries_left' = 0
    /\ IF CounterChecked(c_round)
       THEN /\ c_pc' = "check"
            /\ c_batch' = 0
            /\ c_peer' = 0
            /\ c_expected' = CounterExpected(c_round)
            /\ c_errors' = <<>>
            /\ c_result' = "none"
            /\ c_returned' = {}
            /\ c_observed' = {}
            /\ UNCHANGED c_round
       ELSE CounterNextRound

\* a retry builds its points from the points of the attempt before
CounterUpsert_Reincrement ==
    /\ c_pc = "touch_upsert"
    /\ \E result \in {"Ok", "Err"} :
         IF result = "Ok"
         THEN /\ IF c_batch + 1 < CounterNumChunks
                 THEN /\ CounterBeginBatch(c_batch + 1)
                      /\ UNCHANGED <<c_round, c_check_locals, c_touched>>
                 ELSE CounterTouchReturned
              /\ UNCHANGED <<c_panic, c_reads>>
         ELSE IF c_retries_left > 0
         THEN /\ c_retries_left' = c_retries_left - 1
              /\ c_points' = [id \in DOMAIN c_points |-> NewCounter(c_points[id])]
              /\ UNCHANGED <<c_pc, c_round, c_batch, c_client, c_payload_values,
                             c_check_locals, c_panic, c_touched, c_reads>>
         ELSE CounterPanic("upsert")
    /\ UNCHANGED counter_rest

\* one upsert_points call of the batch and the match on its result
CounterUpsert ==
    /\ c_pc = "touch_upsert"
    /\ \E result \in {"Ok", "Err"} :
         IF result = "Ok"
         THEN /\ IF c_batch + 1 < CounterNumChunks
                 THEN /\ CounterBeginBatch(c_batch + 1)
                      /\ UNCHANGED <<c_round, c_check_locals, c_touched>>
                 ELSE CounterTouchReturned
              /\ UNCHANGED <<c_panic, c_reads>>
         ELSE IF c_retries_left > 0
         THEN /\ c_retries_left' = c_retries_left - 1
              /\ UNCHANGED <<c_pc, c_round, c_batch, c_client, c_payload_values,
                             c_points, c_check_locals, c_panic, c_touched, c_reads>>
         ELSE CounterPanic("upsert")
    /\ UNCHANGED counter_rest

\* check_points returned `result` for client c_peer: main pushes the error and
\* goes on to the next client
CounterPeerDone(result) ==
    /\ c_result' = result
    /\ c_errors' = IF result = "Err" THEN Append(c_errors, c_peer) ELSE c_errors
    /\ c_batch' = 0
    /\ IF c_peer + 1 < HostCount
       THEN c_peer' = c_peer + 1 /\ c_pc' = "check"
       ELSE c_peer' = c_peer /\ c_pc' = "check_end"

\* check_points(client, expected) of client c_peer: the get_points of one chunk
\* and the loop over the points of its response
CounterCheckPoints ==
    /\ c_pc = "check"
    /\ \/ CounterPanic("get")
       \/ \E response \in GetResponses(CounterChunk(c_batch)) :
            /\ c_returned' = (IF c_batch = 0 THEN {} ELSE c_returned)
                                \cup DOMAIN response
            /\ c_observed' = c_observed \cup Counters(response)
            /\ IF \E id \in DOMAIN response : response[id] # c_expected
               THEN CounterPeerDone("Err")
               ELSE IF c_batch + 1 < CounterNumChunks
               THEN /\ c_batch' = c_batch + 1
                    /\ c_result' = "none"
                    /\ UNCHANGED <<c_pc, c_peer, c_errors>>
               ELSE CounterPeerDone("Ok")
            /\ UNCHANGED <<c_round, c_touch_locals, c_expected, c_panic,
                           c_touched, c_reads>>
    /\ UNCHANGED counter_rest

\* a round whose check found a mismatch is checked once more
CounterAfterCheck_Recheck ==
    /\ c_pc = "check_end"
    /\ IF c_errors # <<>>
       THEN /\ c_pc' = "check"
            /\ c_peer' = 0
            /\ c_batch' = 0
            /\ c_errors' = <<>>
            /\ c_result' = "none"
            /\ UNCHANGED <<c_round, c_touch_locals, c_expected, c_returned,
                           c_observed, c_panic, c_touched, c_reads>>
       ELSE /\ CounterNextRound
            /\ UNCHANGED <<c_touch_locals, c_panic, c_touched, c_reads>>
    /\ UNCHANGED counter_rest

\* `if !errors.is_empty() { panic!(..) }`, else the next round
CounterAfterCheck ==
    /\ c_pc = "check_end"
    /\ IF c_errors # <<>>
       THEN CounterPanic("inconsistency")
       ELSE /\ CounterNextRound
            /\ UNCHANGED <<c_touch_locals, c_panic, c_touched, c_reads>>
    /\ UNCHANGED counter_rest

CounterNext ==
    \/ CounterTouchPoints
    \/ CounterRead
    \/ CounterUpsert
    \/ CounterCheckPoints
    \/ CounterAfterCheck

CounterSpec == CounterInit /\ [][CounterNext]_vars

(***************************************************************************)
(* payload-counters with its run_transfers task (main l.65-67 spawns it    *)
(* with the clients only: the harness has no transfer_lock).  The task is  *)
(* run_transfers of sweep-points without the lock()/drop() pair; it and    *)
(* the store run only while the process lives, that is until main panics.  *)
(***************************************************************************)
\* the process of payload-counters has not ended
CounterAlive == c_pc # "panicked"

\* TRANSFER_METHODS of payload-counters
COUNTER_TRANSFER_METHODS == {"WalDelta"}

\* top of the loop: choose_multiple(.., 2) and TRANSFER_METHODS.choose(..)
CounterTrSelect ==
    /\ CounterAlive
    /\ pc_tr = "select"
    /\ \E f \in Clients, t \in Clients, m \in COUNTER_TRANSFER_METHODS :
         /\ f # t
         /\ from' = f
         /\ to' = t
         /\ method' = m
    /\ pc_tr' = "info_from"
    /\ tr_trace' = <<>>
    /\ UNCHANGED tr_panic
    /\ UNCHANGED <<lock_vars, store_transfer, tr_rest>>

\* to.collection_cluster_info(..).await.expect(..).peer_id; the request
\* follows at once
CounterTrInfoTo ==
    /\ CounterAlive
    /\ pc_tr = "info_to"
    /\ \E result \in {"Ok", "Err"} :
         IF result = "Ok"
         THEN pc_tr' = "request" /\ UNCHANGED <<from, to, method, tr_panic, tr_trace>>
         ELSE TrPanic("cluster_info")
    /\ UNCHANGED <<lock_vars, store_transfer, tr_rest>>

CounterTransfersNext ==
    \/ CounterNext
    \/ CounterAlive /\ TrStart
    \/ CounterTrSelect
    \/ CounterAlive /\ TrInfoFrom
    \/ CounterTrInfoTo
    \/ CounterAlive /\ TrRequest
    \/ CounterAlive /\ TrWaitFailed
    \/ CounterAlive /\ TrWaitStart
    \/ CounterAlive /\ TrWaitDone
    \/ CounterAlive /\ StoreRegister
    \/ CounterAlive /\ StoreComplete

CounterTransfersSpec == CounterInit /\ [][CounterTransfersNext]_vars

(***************************************************************************)
(* run_transfers on its own: the task and the store, with a main task that *)
(* is not scheduled meanwhile (the gate is free whenever it is asked for). *)
(* HOSTS may name any number of nodes from one on; refused_run counts the  *)
(* transfer requests the store has refused in a row.                       *)
(***************************************************************************)
\* the longest run of refused requests that is followed
MaxRefused == 3

CoordinatorInit ==
    /\ SweepInit
    /\ ConsistencyIdle
    /\ PayloadCheckIdle
    /\ MissingCheckIdle
    /\ clients_len \in 1 .. HostCount
    /\ CheckRetriesPassed
    /\ FormatRangesIdle
    /\ PeerCheckIdle
    /\ CounterIdle

\* the request, with the run of refusals it prolongs or ends
TrRequestCounted ==
    \E result \in {"Ok", "Err"} :
        /\ TrRequestCall(result)
        /\ IF result = "Ok"
           THEN refused_run' = 0
           ELSE refused_run <= MaxRefused /\ refused_run' = refused_run + 1

CoordinatorNext ==
    \/ TrStart
    \/ TrSelect
    \/ TrInfoFrom
    \/ TrInfoTo
    \/ TrLock
    \/ TrDrop
    \/ TrRequestCounted
    \/ TrWaitFailed
    \/ TrWaitStart
    \/ TrWaitDone
    \/ StoreRegister
    \/ StoreComplete

CoordinatorSpec == CoordinatorInit /\ [][CoordinatorNext]_vars

(***************************************************************************)
(* point-consistency-test (src/tests/point-consistency-test/src/main.rs):  *)
(* check_point_consistency on the lists main hands it: per node the points *)
(* of the responses, RANGE.count() of them (fetch_host_points asserts the  *)
(* length of every response), sorted by ID.  A response is not checked for *)
(* the IDs it holds, so a list may hold an ID more than once.  Vectors and *)
(* payloads are only compared for equality: they are 0 or 1, and node 0    *)
(* holds the value 0 throughout.                                           *)
(***************************************************************************)
\* RANGE.count() (10000 in the source)
RANGE_COUNT == 2

RANGE == 0 .. (RANGE_COUNT - 1)

\* the nondecreasing ID lists of RANGE.count() IDs of RANGE
SortedIdLists ==
    {ids \in [1 .. RANGE_COUNT -> RANGE] :
        \A k \in 1 .. (RANGE_COUNT - 1) : ids[k] <= ids[k + 1]}

\* the values node n may hold for a vector or a payload
NodeValues(n) == IF n = 0 THEN {0} ELSE {0, 1}

\* the sorted point lists node n may have returned
NodePoints(n) ==
    {[k \in 1 .. RANGE_COUNT |->
         [id |-> ids[k], vectors |-> v[ids[k]], payload |-> p[ids[k]]]] :
       ids \in SortedIdLists, v \in [RANGE -> NodeValues(n)], p \in [RANGE -> NodeValues(n)]}

\* `points` for the first n nodes: one list per node, in the order of HOSTS
RECURSIVE FetchedPoints(_)
FetchedPoints(n) ==
    IF n = 0 THEN {<<>>}
    ELSE {Append(points, list) : points \in FetchedPoints(n - 1), list \in NodePoints(n - 1)}

cons_rest == <<sweep_vars, fmt_vars, peer_vars, counter_vars, coord_vars, list_vars>>

ConsistencyInit ==
    /\ SweepInit
    /\ AllClients
    /\ CheckRetriesPassed
    /\ FormatRangesIdle
    /\ PeerCheckIdle
    /\ CounterIdle
    /\ PayloadCheckIdle
    /\ MissingCheckIdle
    /\ x_pc = "compare"
    /\ x_points \in FetchedPoints(HostCount)
    /\ x_i = 0
    /\ x_pos = 1
    /\ wrong_vector_counts = [j \in 1 .. (HostCount - 1) |-> 0]
    /\ wrong_payload_counts = [j \in 1 .. (HostCount - 1) |-> 0]

\* every mismatch is tallied for the first pair
Tally_FirstPair(counts, wrong) ==
    IF wrong THEN [counts EXCEPT ![1] = @ + 1] ELSE counts

\* the tally of pair x_i goes up by one
Tally(counts, wrong) ==
    IF wrong THEN [counts EXCEPT ![x_i + 1] = @ + 1] ELSE counts

\* different IDs at a position are tallied as a mismatch of both kinds
CompareOne_TallyIdMismatch ==
    /\ x_pc = "compare"
    /\ LET a == x_points[x_i + 1][x_pos]
           b == x_points[x_i + 2][x_pos]
           zipped == Min2(Len(x_points[x_i + 1]), Len(x_points[x_i + 2]))
           differ == a.id # b.id
       IN /\ wrong_vector_counts' = Tally(wrong_vector_counts, differ \/ a.vectors # b.vectors)
          /\ wrong_payload_counts' = Tally(wrong_payload_counts, differ \/ a.payload # b.payload)
          /\ IF x_pos < zipped
             THEN /\ x_pos' = x_pos + 1
                  /\ UNCHANGED <<x_pc, x_i>>
             ELSE IF x_i + 2 < HostCount
             THEN /\ x_i' = x_i + 1
                  /\ x_pos' = 1
                  /\ UNCHANGED x_pc
             ELSE /\ x_pc' = "report"
                  /\ UNCHANGED <<x_i, x_pos>>
    /\ UNCHANGED <<x_points, cons_rest>>

\* one iteration of `for (a, b) in points[0].iter().zip(points[1].iter())`
\* for the pair (x_i, x_i + 1): panic on different IDs, else both tallies
CompareOne ==
    /\ x_pc = "compare"
    /\ LET a == x_points[x_i + 1][x_pos]
           b == x_points[x_i + 2][x_pos]
           zipped == Min2(Len(x_points[x_i + 1]), Len(x_points[x_i + 2]))
       IN IF a.id # b.id
          THEN /\ x_pc' = "panicked"
               /\ UNCHANGED <<x_i, x_pos, wrong_vector_counts, wrong_payload_counts>>
          ELSE /\ wrong_vector_counts' = Tally(wrong_vector_counts, a.vectors # b.vectors)
               /\ wrong_payload_counts' = Tally(wrong_payload_counts, a.payload # b.payload)
               /\ IF x_pos < zipped
                  THEN /\ x_pos' = x_pos + 1
                       /\ UNCHANGED <<x_pc, x_i>>
                  ELSE IF x_i + 2 < HostCount
                  THEN /\ x_i' = x_i + 1
                       /\ x_pos' = 1
                       /\ UNCHANGED x_pc
                  ELSE /\ x_pc' = "report"
                       /\ UNCHANGED <<x_i, x_pos>>
    /\ UNCHANGED <<x_points, cons_rest>>

\* the loop that prints the two tallies of every pair, and the return
ReportCounts ==
    /\ x_pc = "report"
    /\ x_pc' = "returned"
    /\ UNCHANGED <<x_points, x_i, x_pos, wrong_vector_counts, wrong_payload_counts,
                   cons_rest>>

ConsistencyNext == CompareOne \/ ReportCounts

ConsistencySpec == ConsistencyInit /\ [][ConsistencyNext]_vars

(***************************************************************************)
(* list-inconsistent-payloads                                              *)
(* (src/tests/list-inconsistent-payloads/src/main.rs): main calls          *)
(* check_points again and again; check_points takes the IDs into a working *)
(* set of at most BATCH_SIZE, fetches their payloads from every node and   *)
(* keeps the IDs whose payloads differ.  A node answers a get with points  *)
(* for any of the requested IDs and any payloads; payloads are only        *)
(* compared for equality, so the payloads of node 0 are all taken as 0.    *)
(***************************************************************************)
\* POINT_COUNT of list-inconsistent-payloads (200_000 in the source)
PAYLOAD_POINT_COUNT == 3
\* BATCH_SIZE of list-inconsistent-payloads (10000 in the source)
PAYLOAD_BATCH_SIZE == 2
\* `retry` is unbounded; the model follows it up to this value
MaxPayloadRetry == 2

\* (0..POINT_COUNT).collect::<Vec<_>>()
PayloadIds == RangeSeq(0, PAYLOAD_POINT_COUNT)

\* the payloads a point may come back with
PayloadValues == {0, 1}

\* Vec::split_off(at): what it returns ...
split_off(s, at) == SubSeq(s, at + 1, Len(s))

\* ... and what it leaves in the Vec
split_off_left(s, at) == SubSeq(s, 1, at)

\* the map get_payloads may return for ids: the points of its responses
PayloadMaps(ids, values) == UNION {[D -> values] : D \in SUBSET SeqToSet(ids)}

\* join_all of get_payloads over the clients: one map per node
NodePayloads(ids) ==
    {<<first>> \o others :
        first \in PayloadMaps(ids, {0}),
        others \in [1 .. (HostCount - 1) -> PayloadMaps(ids, PayloadValues)]}

pay_rest == <<sweep_vars, fmt_vars, peer_vars, counter_vars, coord_vars, cons_vars,
              miss_vars>>

\* check_points up to its loop: remaining, then ids split off its end
PayloadCheckEntry ==
    /\ y_pc' = "loop"
    /\ y_remaining' = split_off_left(PayloadIds,
                          saturating_sub(Len(PayloadIds), PAYLOAD_BATCH_SIZE))
    /\ y_ids' = split_off(PayloadIds,
                          saturating_sub(Len(PayloadIds), PAYLOAD_BATCH_SIZE))
    /\ y_payloads' = <<>>
    /\ y_retry' = 0
    /\ y_consistent' = {}

PayloadCheckInit ==
    /\ SweepInit
    /\ AllClients
    /\ CheckRetriesPassed
    /\ ConsistencyIdle
    /\ MissingCheckIdle
    /\ FormatRangesIdle
    /\ PeerCheckIdle
    /\ CounterIdle
    /\ y_pc = "loop"
    /\ y_remaining = split_off_left(PayloadIds,
                         saturating_sub(Len(PayloadIds), PAYLOAD_BATCH_SIZE))
    /\ y_ids = split_off(PayloadIds,
                         saturating_sub(Len(PayloadIds), PAYLOAD_BATCH_SIZE))
    /\ y_payloads = <<>>
    /\ y_retry = 0
    /\ y_consistent = {}

\* check_points panics: its locals are gone
PayloadPanic ==
    /\ y_pc' = "panicked"
    /\ y_payloads' = <<>>
    /\ UNCHANGED <<y_remaining, y_ids, y_retry, y_consistent>>

\* the loop condition, the timeout test and the join_all of get_payloads: the
\* function returns Ok, panics (RETRY_TIMEOUT has passed; a get failed
\* GET_RETRIES times; a point came without the payload key), or holds the maps
PayloadLoop ==
    /\ y_pc = "loop"
    /\ IF y_remaining = <<>> /\ y_ids = <<>>
       THEN /\ y_pc' = "returned"
            /\ UNCHANGED <<y_remaining, y_ids, y_payloads, y_retry, y_consistent>>
       ELSE \/ PayloadPanic
            \/ /\ \E payloads \in NodePayloads(y_ids) : y_payloads' = payloads
               /\ y_pc' = "fetched"
               /\ UNCHANGED <<y_remaining, y_ids, y_retry, y_consistent>>
    /\ UNCHANGED pay_rest

\* only the first two nodes are compared
windows_all_FirstPair(payloads, id, w) ==
    IF id \notin DOMAIN payloads[1] \/ id \notin DOMAIN payloads[2]
    THEN "Panic"
    ELSE IF payloads[1][id] # payloads[2][id] THEN "Mismatch"
    ELSE "Equal"

\* payloads.windows(2).all(|payload| payload[0][id] == payload[1][id]) from
\* window w on: `all` stops at the first window that differs, and indexing a
\* map that lacks the id panics
RECURSIVE windows_all(_, _, _)
windows_all(payloads, id, w) ==
    IF w + 1 > Len(payloads) THEN "Equal"
    ELSE IF id \notin DOMAIN payloads[w] \/ id \notin DOMAIN payloads[w + 1]
    THEN "Panic"
    ELSE IF payloads[w][id] # payloads[w + 1][id] THEN "Mismatch"
    ELSE windows_all(payloads, id, w + 1)

\* new_ids: the IDs of ids that are not consistent, in their order
new_ids(ids, payloads) ==
    SelectSeq(ids, LAMBDA id : windows_all(payloads, id, 1) = "Mismatch")

\* the loop over ids and the rest of the iteration: new_ids becomes ids and is
\* filled up from the end of remaining
PayloadCompare ==
    /\ y_pc = "fetched"
    /\ IF \E k \in 1 .. Len(y_ids) : windows_all(y_payloads, y_ids[k], 1) = "Panic"
       THEN PayloadPanic
       ELSE LET new == new_ids(y_ids, y_payloads)
                at == saturating_sub(Len(y_remaining), PAYLOAD_BATCH_SIZE - Len(new))
            IN /\ y_retry' = IF new # <<>> THEN y_retry + 1 ELSE y_retry
               /\ y_retry' <= MaxPayloadRetry
               /\ y_ids' = new \o split_off(y_remaining, at)
               /\ y_remaining' = split_off_left(y_remaining, at)
               /\ y_consistent' = y_consistent \cup (SeqToSet(y_ids) \ SeqToSet(new))
               /\ y_payloads' = <<>>
               /\ y_pc' = "loop"
    /\ UNCHANGED pay_rest

\* main: check_points(&clients).await.unwrap(), sleep, and the next call
PayloadCheckAgain ==
    /\ y_pc = "returned"
    /\ PayloadCheckEntry
    /\ UNCHANGED pay_rest

PayloadCheckNext == PayloadLoop \/ PayloadCompare \/ PayloadCheckAgain

PayloadCheckSpec == PayloadCheckInit /\ [][PayloadCheckNext]_vars

(***************************************************************************)
(* list-missing-points (src/tests/list-missing-points/src/main.rs):        *)
(* check_host(host) scrolls the range chunk by chunk and asks again, with  *)
(* get_points, for the IDs a response lacked until none is lacking.  A     *)
(* node answers a scroll with up to `limit` points from the offset on and  *)
(* a get with points for any of the requested IDs; either call may fail,   *)
(* and `?` then returns the error from check_host.                         *)
(***************************************************************************)
\* end of RANGE of list-missing-points (0..200000 in the source)
HOST_RANGE_COUNT == 3
\* BATCH_SIZE of list-missing-points (5000 in the source)
HOST_BATCH_SIZE == 2
\* the retry loop counts nothing; the model follows a chunk for this many
\* get_points calls that leave an ID missing
MaxHostRetries == 3

\* RANGE.collect::<Vec<_>>()
CheckHostIds == RangeSeq(0, HOST_RANGE_COUNT)

\* number of chunks of ids.chunks(BATCH_SIZE)
CheckHostNumChunks == (Len(CheckHostIds) + HOST_BATCH_SIZE - 1) \div HOST_BATCH_SIZE

\* k-th chunk (k from 0) of ids.chunks(BATCH_SIZE)
CheckHostChunk(k) ==
    SubSeq(CheckHostIds, k * HOST_BATCH_SIZE + 1,
           Min2((k + 1) * HOST_BATCH_SIZE, Len(CheckHostIds)))

\* response.result of the scroll for a chunk, as the IDs of its points: up to
\* `limit` IDs from `offset` on, in ascending order; the node may hold one ID
\* past the range
CheckHostScrollResponses(chunk) ==
    {SetToSeq(S) : S \in {T \in SUBSET (chunk[1] .. HOST_RANGE_COUNT) :
                              Cardinality(T) <= Len(chunk)}}

\* response.result of get_points for ids, as the set of the IDs of its points
CheckHostGetResponses(ids) == SUBSET SeqToSet(ids)

\* no retried ID is pushed back
still_missing_None(ids, result) == <<>>

\* the filter over ids and its for_each: the IDs no point of the response has
still_missing(ids, result) == SelectSeq(ids, LAMBDA id : id \notin result)

miss_rest == <<sweep_vars, fmt_vars, peer_vars, counter_vars, coord_vars, cons_vars,
               pay_vars>>

\* check_host up to the first scroll
CheckHostInit ==
    /\ SweepInit
    /\ AllClients
    /\ CheckRetriesPassed
    /\ ConsistencyIdle
    /\ PayloadCheckIdle
    /\ FormatRangesIdle
    /\ PeerCheckIdle
    /\ CounterIdle
    /\ m_pc = "scroll"
    /\ m_batch = 0
    /\ m_response = <<>>
    /\ m_tmp_missing = <<>>
    /\ m_missing_ids = <<>>
    /\ m_points = <<>>
    /\ m_seen = {}
    /\ m_retries = 0

\* `?` on a failed call: check_host returns the error
CheckHostFailed ==
    /\ m_pc' = "failed"
    /\ UNCHANGED <<m_batch, m_response, m_tmp_missing, m_missing_ids, m_points,
                   m_seen, m_retries>>

\* the retry loop of the chunk is over: points.extend(response.result) with
\* the response of the scroll, then the next chunk or `Ok(points)`
CheckHostChunkDone(response) ==
    /\ m_points' = m_points \o response
    /\ m_tmp_missing' = <<>>
    /\ IF m_batch + 1 < CheckHostNumChunks
       THEN m_pc' = "scroll" /\ m_batch' = m_batch + 1
       ELSE m_pc' = "returned" /\ m_batch' = m_batch

\* the scroll of the chunk and the filter over its IDs, up to the first
\* get_points call or, when no ID is missing, the end of the chunk
CheckHostScroll ==
    /\ m_pc = "scroll"
    /\ \/ CheckHostFailed
       \/ \E response \in CheckHostScrollResponses(CheckHostChunk(m_batch)) :
            LET missing == still_missing(CheckHostChunk(m_batch), SeqToSet(response))
            IN /\ m_response' = response
               /\ m_missing_ids' = m_missing_ids \o missing
               /\ m_seen' = SeqToSet(response) \cap SeqToSet(CheckHostChunk(m_batch))
               /\ m_retries' = 0
               /\ IF missing # <<>>
                  THEN /\ m_tmp_missing' = missing
                       /\ m_pc' = "retry"
                       /\ UNCHANGED <<m_batch, m_points>>
                  ELSE CheckHostChunkDone(response)
    /\ UNCHANGED miss_rest

\* one iteration of `while !tmp_missing.is_empty()`: the get_points call for
\* the IDs still missing and the filter over them
CheckHostRetry ==
    /\ m_pc = "retry"
    /\ \/ CheckHostFailed
       \/ \E result \in CheckHostGetResponses(m_tmp_missing) :
            LET missing == still_missing(m_tmp_missing, result)
            IN /\ m_seen' = m_seen \cup result
               /\ IF missing # <<>>
                  THEN /\ m_retries < MaxHostRetries
                       /\ m_retries' = m_retries + 1
                       /\ m_tmp_missing' = missing
                       /\ UNCHANGED <<m_pc, m_batch, m_points>>
                  ELSE /\ m_retries' = m_retries
                       /\ CheckHostChunkDone(m_response)
               /\ UNCHANGED <<m_response, m_missing_ids>>
    /\ UNCHANGED miss_rest

CheckHostNext == CheckHostScroll \/ CheckHostRetry

CheckHostSpec == CheckHostInit /\ [][CheckHostNext]_vars

(***************************************************************************)
(* Properties                                                              *)
(***************************************************************************)
\* check_points is running (between its entry and its return or panic)
InCheck ==
    pc_main \in {"check_peer", "check_cycle_end", "check_lock", "check_lock_wait",
                 "check_delay"}

CheckerBlocked == pc_main = "check_lock_wait" /\ ~MutexGranted("checker")

InjectorBlocked == pc_tr = "lock_wait" /\ ~MutexGranted("injector")

\* run_transfers awaits a remote call (or is about to make it)
TrRemoteCall ==
    pc_tr \in {"info_from", "info_to", "request", "wait_0_failed", "wait_1", "wait_0"}

\* C1: while check_points holds the transfer gate, run_transfers issues no
\* shard-transfer request: every step that makes the request is taken in a
\* state where the checker's guard is None.
C1_NoTransferWhileGateHeld ==
    [][(pc_tr = "request" /\ pc_tr' # "request") => ~transfer_lock_guard]_vars

\* C2: gate mutual exclusion.  The coordinator never holds the gate while the
\* checker does; a lock() the coordinator starts while the checker holds the
\* gate suspends; a suspended lock() does not return while the checker holds
\* the gate; and when the checker releases the gate with the coordinator
\* waiting, the gate passes to the coordinator.
C2_GateMutualExclusion ==
    /\ [](~(transfer_lock_guard /\ pc_tr = "holding"))
    /\ [][(transfer_lock_guard /\ pc_tr = "lock" /\ pc_tr' # "lock")
            => pc_tr' = "lock_wait"]_vars
    /\ [][(pc_tr = "lock_wait" /\ pc_tr' = "holding") => ~transfer_lock_guard]_vars
    /\ [][(transfer_lock_guard /\ ~transfer_lock_guard' /\ pc_tr = "lock_wait")
            => lock_owner' = "injector"]_vars

\* the checker released the gate while the coordinator waited for it: the
\* permit is the coordinator's, whose lock() has not returned yet
C2_Witness ==
    /\ pc_tr = "lock_wait"
    /\ lock_owner = "injector"
    /\ ~transfer_lock_guard
    /\ pc_main = "check_returned"

\* C3: the checker touches the gate only after an observed failure: whenever
\* check_points holds the gate, waits for it or has acquired it in this call,
\* at least one cycle of the call had a failing node; a call whose first cycle
\* passes returns Ok without having acquired the gate.
C3_GateOnlyAfterFailure ==
    /\ (transfer_lock_guard \/ pc_main = "check_lock_wait" \/ gate_acquired > 0
          \/ lock_owner = "checker")
         => fail_cycles >= 1
    /\ (pc_main = "check_returned" /\ cycles = 1 /\ fail_cycles = 0)
         => (check_result = "Ok" /\ gate_acquired = 0)

\* the gate was acquired right after the first cycle, which failed
C3_Witness ==
    /\ transfer_lock_guard
    /\ pc_main = "check_delay"
    /\ cycles = 1
    /\ fail_cycles = 1
    /\ gate_acquired = 1

\* C4: once check_points has acquired the gate it holds it in every later
\* state of the call (cycles and delays), and when the call has returned the
\* gate is released.
C4_GateHeldUntilReturn ==
    /\ (InCheck /\ gate_acquired >= 1)
         => (transfer_lock_guard /\ lock_owner = "checker")
    /\ pc_main = "check_returned"
         => (~transfer_lock_guard /\ lock_owner # "checker")

\* the gate, acquired after the first cycle, is still held in the delay after
\* the second failing cycle
C4_Witness ==
    /\ transfer_lock_guard
    /\ pc_main = "check_delay"
    /\ cycles = 2
    /\ gate_acquired = 1

\* C5: checker and coordinator never both wait for the gate, and a
\* coordinator waiting for the gate is eventually given it.
C5_NoGateDeadlock ==
    /\ [](~(CheckerBlocked /\ InjectorBlocked))
    /\ (pc_tr = "lock_wait" ~> lock_owner = "injector")

\* the coordinator waits for the gate, which the checker holds
C5_Witness ==
    /\ InjectorBlocked
    /\ transfer_lock_guard
    /\ InCheck

\* C6: the coordinator has the gate only between lock() and drop: never while
\* one of its remote calls is outstanding.
C6_InjectorHoldsOnlyInstant ==
    /\ lock_owner = "injector" => pc_tr \in {"lock_wait", "holding"}
    /\ TrRemoteCall => lock_owner # "injector"

\* the checker holds the gate while a transfer is in flight and the
\* coordinator polls for it
C6_Witness ==
    /\ store_transfer = "active"
    /\ pc_tr = "wait_1"
    /\ transfer_lock_guard

\* C7: check_points(attempts = CHECK_RETRIES) runs at most CHECK_RETRIES
\* cycles; while it runs every completed cycle failed; it returns Ok right
\* after the first passing cycle; it returns Err iff CHECK_RETRIES cycles ran
\* and each failed.
C7_CheckCycles ==
    /\ cycles <= CHECK_RETRIES
    /\ fail_cycles <= cycles
    /\ InCheck => fail_cycles = cycles
    /\ pc_main = "check_returned" =>
         /\ check_result \in {"Ok", "Err"}
         /\ check_result = "Ok" => (cycles >= 1 /\ fail_cycles = cycles - 1)
         /\ check_result = "Err" <=> fail_cycles = CHECK_RETRIES

\* Ok from the last cycle the budget allows, all earlier ones having failed
C7_Witness ==
    /\ pc_main = "check_returned"
    /\ check_result = "Ok"
    /\ cycles = CHECK_RETRIES

\* C8: once check_points has returned Err the main task does nothing but
\* panic: the round does not advance and no batch or check is started.
C8_InconsistencyIsTerminal ==
    [][check_result = "Err" =>
         /\ pc_main' \in {"check_returned", "panicked"}
         /\ round' = round
         /\ UNCHANGED <<batch, acked_deletes, issued_upserts, cycles>>]_vars

\* the run was aborted for a confirmed inconsistency
C8_Witness ==
    /\ pc_main = "panicked"
    /\ panic_cause = "inconsistency"
    /\ check_result = "Err"

\* C9: a batch is attempted at most UPDATE_RETRIES times; the run is aborted
\* for a failed update exactly when UPDATE_RETRIES attempts of one batch have
\* failed; after that nothing more is issued.
C9_UpdateRetryBudget ==
    /\ [](batch_fail <= UPDATE_RETRIES)
    /\ []((batch_fail = UPDATE_RETRIES) <=> (panic_cause \in {"delete", "upsert"}))
    /\ [](panic_cause \in {"delete", "upsert"} => pc_main = "panicked")
    /\ [][pc_main = "panicked" => UNCHANGED vars]_vars

\* the budget of a delete batch was exhausted
C9_Witness ==
    /\ panic_cause = "delete"
    /\ batch_fail = UPDATE_RETRIES
    /\ retries_left = 0

\* C10: an upsert is issued in a round only after every delete batch of the
\* round was acknowledged, and no delete is issued once an upsert was.
C10_DeleteBeforeUpsert ==
    /\ issued_upserts > 0
         => acked_deletes = NumChunks(delete_ids(SweepStart(round)))
    /\ pc_main = "sweep_upsert"
         => acked_deletes = NumChunks(delete_ids(SweepStart(round)))
    /\ pc_main = "sweep_delete" => issued_upserts = 0

\* upserts of a round that had more than one delete batch
C10_Witness ==
    /\ pc_main = "sweep_upsert"
    /\ issued_upserts >= 1
    /\ acked_deletes >= 2

\* sweep_points of the current round has returned
SweepDone == InCheck \/ pc_main = "check_returned"

\* C11: in round r with window W = POINT_COUNT the acknowledged delete batches
\* hold IDs of [(r-1)*W, r*W) only (none in round 0) and the acknowledged
\* upsert batches IDs of [r*W, r*W+W) only; once sweep_points has returned
\* they hold exactly these ranges; the two are disjoint; and the delete range
\* of round r+1 is the upsert range of round r.
C11_SweepRanges ==
    LET DeleteWindow == IF round = 0 THEN {}
                        ELSE ((round - 1) * POINT_COUNT) .. (round * POINT_COUNT - 1)
        UpsertWindow == (round * POINT_COUNT) .. (round * POINT_COUNT + POINT_COUNT - 1)
    IN /\ deleted \subseteq DeleteWindow
       /\ upserted \subseteq UpsertWindow
       /\ SweepDone => (deleted = DeleteWindow /\ upserted = UpsertWindow)
       /\ deleted \cap upserted = {}
       /\ SeqToSet(delete_ids(SweepStart(round + 1)))
            = SeqToSet(upsert_ids(SweepStart(round)))

\* sweep_points of a round after the first has returned, with both ranges sent
C11_Witness ==
    /\ SweepDone
    /\ round >= 1
    /\ Cardinality(deleted) = POINT_COUNT
    /\ Cardinality(upserted) = POINT_COUNT

\* C12: against a store without faults, whatever node each batch is sent to
\* and however often a batch is retried, every node holds exactly
\* [r*W, r*W+W) once sweep_points of round r has returned, and check_points
\* of the round returns Ok after one cycle in which no node failed.
C12_NoFalseInconsistency ==
    LET Window == SweepStart(round) .. (SweepStart(round) + POINT_COUNT - 1)
    IN /\ SweepDone => \A n \in Hosts : population[n] = Window
       /\ errors = <<>>
       /\ fail_cycles = 0
       /\ panic_cause # "inconsistency"
       /\ pc_main = "check_returned" => (check_result = "Ok" /\ cycles = 1)

\* the check of a round that had a window to delete has passed
C12_Witness ==
    /\ pc_main = "check_returned"
    /\ round >= 1
    /\ check_result = "Ok"
    /\ \A n \in Hosts : Cardinality(population[n]) = POINT_COUNT

\* the window check_points_on_peer is called for
PeerWindow == p_sweep_start .. (p_sweep_start + POINT_COUNT - 1)

\* the scroll response holds some ID more than once
HasDuplicate(ids) == \E i, j \in 1 .. Len(ids) : i # j /\ ids[i] = ids[j]

\* C13: check_points_on_peer returns Ok only when the set of fetched IDs is
\* exactly the window [sweep_start, sweep_start + W): none missing, none extra.
C13_OkOnlyOnExactWindow ==
    (p_pc = "returned" /\ p_result = "Ok") => SeqToSet(p_fetched) = PeerWindow

\* C14: a fetched ID list that holds a duplicate never yields Ok.
C14_DuplicateNeverPasses ==
    (p_pc = "returned" /\ HasDuplicate(p_fetched)) => p_result # "Ok"

\* main of payload-counters is in the check of a round
InCounterCheck == c_pc \in {"check", "check_end"}

\* C15: the check after the n-th completed touch round (round index n-1)
\* compares against n on every node; as long as no node has failed, every
\* counter observed in it equals n, and the run goes on to the next round
\* only from a check in which all nodes were checked and none failed.
C15_CounterCheckExpectsRound ==
    /\ [](InCounterCheck => (c_expected = c_touched /\ c_touched = c_round + 1))
    /\ []((InCounterCheck /\ c_errors = <<>>) => c_observed \subseteq {c_expected})
    /\ [][c_round' = c_round + 1
            => (/\ c_pc = "check_end"
                /\ c_peer = HostCount - 1
                /\ c_errors = <<>>
                /\ c_observed \subseteq {c_expected})]_vars

\* the check of the second round has passed on all nodes with counters seen
C15_Witness ==
    /\ c_pc = "check_end"
    /\ c_round = 1
    /\ c_errors = <<>>
    /\ c_observed = {2}

\* C16: check_points on a node returns Ok only if every ID of 0..POINT_COUNT
\* was fetched; an ID the node does not return makes the check fail.
C16_OkOnlyIfEveryIdFetched == c_result = "Ok" => c_returned = CounterIds

\* C17: whenever touch_points is at the upsert of a batch, the read of that
\* batch has returned, and the upsert's points are exactly the IDs of the
\* batch, each with the counter the read returned for it plus one.
C17_UpsertIsReadPlusOne ==
    c_pc = "touch_upsert"
        => /\ c_batch \in c_reads
           /\ DOMAIN c_points = CounterChunk(c_batch)
           /\ DOMAIN c_payload_values = CounterChunk(c_batch)
           /\ \A id \in CounterChunk(c_batch) :
                c_points[id] = c_payload_values[id] + 1

\* the upsert of the last batch is retried after a read that returned
\* different counters for the IDs of a batch
C17_Witness ==
    /\ c_pc = "touch_upsert"
    /\ c_batch = CounterNumChunks - 1
    /\ c_retries_left = 0
    /\ \E id \in DOMAIN c_points : c_points[id] >= 2

\* the maximal runs of consecutive IDs of a finite set S, ascending, each as
\* the half-open range <<start, end>>
MaximalRuns(S) ==
    LET starts == SetToSeq({a \in S : (a - 1) \notin S})
        EndOf(a) == CHOOSE b \in {c + 1 : c \in S} :
                        /\ b > a
                        /\ b \notin S
                        /\ \A c \in a .. (b - 1) : c \in S
    IN [i \in 1 .. Len(starts) |-> <<starts[i], EndOf(starts[i])>>]

\* C18: on a strictly increasing ID list format_ranges returns the maximal
\* runs of consecutive IDs, ascending and joined by commas, each written
\* start..end with the end excluded: the ranges expand to the input, no two
\* overlap or touch, a single ID i gives i..i+1, the empty list gives the
\* empty string, and [3,4,5,9,10,15] gives "3..6,9..11,15..16".
C18_FormatRanges ==
    f_pc = "returned" =>
        LET runs == MaximalRuns(SeqToSet(f_ids))
        IN /\ f_out = Join([i \in 1 .. Len(runs) |-> RangeDebug(runs[i])])
           /\ UNION {runs[i][1] .. (runs[i][2] - 1) : i \in 1 .. Len(runs)}
                = SeqToSet(f_ids)
           /\ \A i, j \in 1 .. Len(runs) : i < j => runs[i][2] < runs[j][1]
           /\ f_ids = <<>> => f_out = ""
           /\ f_ids = <<5>> => f_out = "5..6"
           /\ f_ids = <<0, 1, 2, 3>> => f_out = "0..4"
           /\ f_ids = ExampleIds => f_out = "3..6,9..11,15..16"

\* the call on the list with runs of 3, 2 and 1 IDs has returned
C18_Witness ==
    /\ f_pc = "returned"
    /\ f_ids = ExampleIds
    /\ f_out = "3..6,9..11,15..16"

\* C19: the coordinator issues a request only after it selected nodes anew,
\* and it selects nodes anew after a request only when that request was
\* followed by an observation of transfer count 0 on its source as the last
\* thing and, if it was accepted, by an observation of count 1 before that.
C19_TransferOrdering ==
    /\ [](pc_tr = "request" => tr_trace = <<>>)
    /\ [][(tr_trace # <<>> /\ tr_trace' = <<>>)
            => \/ pc_tr' = "panicked"
               \/ /\ pc_tr = "select"
                  /\ tr_trace \in {<<"accepted", 1, 0>>, <<"refused", 0>>}]_vars

\* the coordinator is about to select nodes again after a transfer that it
\* saw start and end
C19_Witness == pc_tr = "select" /\ tr_trace = <<"accepted", 1, 0>>

\* C20: once the store has registered and completed an accepted transfer,
\* the coordinator does not time out waiting for it, whenever its polls fall:
\* it never gives up in wait_for_transfer_count(from, 1) on a transfer that
\* has already come and gone.
C20_NoTimeoutAfterCompletion ==
    [][(pc_tr = "wait_1" /\ tr_panic' = "timeout") => store_transfer # "idle"]_vars

\* C21: a refused transfer request does not end the coordinator: it goes on
\* to wait for transfer count 0 on the source, and when it has seen 0 it is
\* back at the selection of nodes, never having waited for count 1.
C21_FailedRequestNotFatal ==
    /\ [][(pc_tr = "request" /\ tr_trace' = <<"refused">>)
            => (pc_tr' = "wait_0_failed" /\ tr_panic' = "none")]_vars
    /\ [](pc_tr = "wait_0_failed" => tr_trace = <<"refused">>)
    /\ []((tr_trace # <<>> /\ tr_trace[1] = "refused")
            => /\ tr_trace \in {<<"refused">>, <<"refused", 0>>}
               /\ pc_tr \in {"wait_0_failed", "select"})
    /\ [][(pc_tr = "wait_0_failed" /\ pc_tr' \notin {"wait_0_failed", "panicked"})
            => /\ TransferCount = 0
               /\ pc_tr' = "select"
               /\ tr_trace' = <<"refused", 0>>]_vars

\* the coordinator is back at the selection after a refused request
C21_Witness == pc_tr = "select" /\ tr_trace = <<"refused", 0>>

\* C22: once a transfer-count poll of the coordinator has timed out, the
\* process is over: the main task starts no further batch and no further
\* check, it takes no step at all.
C22_PollTimeoutEndsRun ==
    [][tr_panic = "timeout" => UNCHANGED <<main_vars, hist_vars>>]_vars

\* In the current cycle of check_points the call check_points_on_peer for
\* node i has returned.  Each CheckPointsOnPeer step is the call together
\* with the await of its result, and `peer` is the node the loop is at.
FetchReturned(i) ==
    \/ pc_main = "check_peer" /\ i < peer
    \/ pc_main \in {"check_cycle_end", "check_lock", "check_lock_wait", "check_delay"}

\* In the current cycle the scroll of node j has been issued: the loop issues
\* it inside the call it awaits, so not before the call has run
FetchIssued(j) == FetchReturned(j)

\* C25: in a check cycle the fetch of node j is issued without waiting for the
\* fetch of a node i < j: no fetch of the cycle has returned while another
\* is still to be issued.
C25_FetchesInParallel ==
    \A i, j \in Hosts : (i < j /\ FetchReturned(i)) => FetchIssued(j)

\* the main task is inside sweep_points, sending the batches of the round
InWorkload ==
    pc_main \in {"sweep_delete", "sweep_upsert"}

\* the IDs sweep_points of the current round deletes and upserts
RoundDeleteWindow ==
    IF round = 0 THEN {}
    ELSE ((round - 1) * POINT_COUNT) .. (round * POINT_COUNT - 1)

RoundUpsertWindow ==
    (round * POINT_COUNT) .. (round * POINT_COUNT + POINT_COUNT - 1)

\* C26: the round counter starts at 0 and only ever grows by one; it grows
\* only when check_points of the round has returned Ok, and that is the only
\* way a round's workload gets started after round 0; while check_points runs
\* every batch of the round has been sent and acknowledged, and the main task
\* sends no upsert and no delete.
C26_RoundOrdering ==
    /\ [][round' \in {round, round + 1}]_vars
    /\ [][(round' # round \/ (pc_main' = "round_start" /\ pc_main # "round_start"))
            => /\ pc_main = "check_returned"
               /\ check_result = "Ok"
               /\ round' = round + 1
               /\ pc_main' = "round_start"]_vars
    /\ [](InCheck => (upserted = RoundUpsertWindow /\ deleted = RoundDeleteWindow))
    /\ [][InCheck => UNCHANGED <<issued_upserts, acked_deletes, deleted, upserted,
                                  batch, round>>]_vars
    /\ [][(InCheck' /\ ~InCheck) => InWorkload]_vars

\* the workload of round 1 has started after the check of round 0 passed
C26_Witness == round = 1 /\ InWorkload /\ issued_upserts >= 1

\* C27: run_transfers has sent no transfer request while the main task is
\* still in round 0 (its workload or its check).
C27_NoRequestInRoundZero ==
    pc_tr \in {"wait_1", "wait_0", "wait_0_failed"} => round >= 1

\* C23: the coordinator gives up after a bounded run of refused transfer
\* requests: once more than MaxRefused requests in a row were refused it
\* does not go on to another iteration of its loop.
C23_RetryBudget ==
    refused_run > MaxRefused => pc_tr \in {"wait_0_failed", "panicked", "returned"}

\* run_transfers has chosen its two nodes and not yet sent the request
TrChosen == pc_tr \in {"info_from", "info_to", "lock", "lock_wait", "holding", "request"}

\* C24: from the selection to the request, `from` and `to` are two different
\* handles of `clients`; given fewer than two handles run_transfers returns
\* at once: it never selects, never locks transfer_lock and never sends a
\* request.
C24_TwoDistinctNodes ==
    /\ TrChosen => (from \in Clients /\ to \in Clients /\ from # to)
    /\ clients_len < 2 => /\ pc_tr \in {"start", "returned"}
                          /\ lock_owner = "none"
                          /\ lock_waiters = <<>>
                          /\ store_transfer = "idle"
                          /\ tr_trace = <<>>

\* the request is about to be sent between the only two handles there are
C24_Witness == pc_tr = "request" /\ clients_len = 2 /\ from # to

\* the nodes with verdict Err among the first n verdicts, in node order
RECURSIVE FailedNodes(_, _)
FailedNodes(v, n) ==
    IF n = 0 THEN <<>>
    ELSE IF v[n] = "Err" THEN Append(FailedNodes(v, n - 1), n - 1)
         ELSE FailedNodes(v, n - 1)

\* check_points has given up and returned Err(errors.join("\n"))
TerminalFail == pc_main = "check_returned" /\ check_result = "Err"

\* C28: when check_points returns Err, its last cycle has asked every node,
\* and the report has one entry for each node whose check failed in that
\* cycle, in node order, and no other entry.
C28_ReportNamesFailedNodes ==
    TerminalFail => /\ Len(verdicts) = HostCount
                    /\ errors = FailedNodes(verdicts, HostCount)

\* in the last cycle only node 1 failed, and only node 1 is reported
C28_Witness ==
    /\ TerminalFail
    /\ verdicts = <<"Ok", "Err", "Ok">>
    /\ errors = <<1>>

\* the IDs of the window that the scroll response lacks
MissingIds == PeerWindow \ SeqToSet(p_fetched)

\* the scroll response holds IDs of the window only, none twice and at least
\* one, and what it lacks of the window is one run of consecutive IDs
LacksOneRange ==
    /\ p_fetched # <<>>
    /\ ~HasDuplicate(p_fetched)
    /\ SeqToSet(p_fetched) \subseteq PeerWindow
    /\ Len(MaximalRuns(MissingIds)) = 1

\* C29: when the node lacks exactly one run of consecutive IDs of the window,
\* check_points_on_peer returns Err and the ranges its message gives after
\* the expected window are that missing run, as format_ranges writes it.
C29_ReportNamesMissingRange ==
    (p_pc = "returned" /\ LacksOneRange)
        => /\ p_result = "Err"
           /\ p_report.got = RangeDebug(MaximalRuns(MissingIds)[1])

\* the IDs of RANGE whose field (vectors or payload) differs between the
\* lists of node i and node i + 1
DifferingIds(i, field) ==
    {id \in RANGE :
        \E k \in 1 .. Len(x_points[i + 1]), l \in 1 .. Len(x_points[i + 2]) :
            /\ x_points[i + 1][k].id = id
            /\ x_points[i + 2][l].id = id
            /\ x_points[i + 1][k][field] # x_points[i + 2][l][field]}

\* the positions compared for the pair (i, i + 1)
ComparedPoints(i) == Min2(Len(x_points[i + 1]), Len(x_points[i + 2]))

\* C30: when check_point_consistency has gone through every pair, the vector
\* tally of the pair (i, i + 1) is the number of IDs whose vectors differ
\* between the two nodes and the payload tally the number of IDs whose
\* payloads differ, each counted on its own, and neither exceeds the number
\* of points compared.
C30_TalliesCountDifferingIds ==
    x_pc \in {"report", "returned"} =>
        \A i \in 0 .. (HostCount - 2) :
            /\ wrong_vector_counts[i + 1] = Cardinality(DifferingIds(i, "vectors"))
            /\ wrong_payload_counts[i + 1] = Cardinality(DifferingIds(i, "payload"))
            /\ wrong_vector_counts[i + 1] <= ComparedPoints(i)
            /\ wrong_payload_counts[i + 1] <= ComparedPoints(i)

\* check_point_consistency has compared every pair without a panic
Compared == x_pc \in {"report", "returned"}

\* nodes i and j returned the same points: same IDs, vectors and payloads
NodesEqual(i, j) == x_points[i + 1] = x_points[j + 1]

\* both tallies of the pair (i, i + 1) are zero
PairClean(i) == wrong_vector_counts[i + 1] = 0 /\ wrong_payload_counts[i + 1] = 0

AdjacentPairs == 0 .. (HostCount - 2)

\* node d is the one divergent node: the others agree with each other and
\* none of them agrees with d
OnlyDivergent(d) ==
    /\ \A i, j \in Hosts \ {d} : NodesEqual(i, j)
    /\ \A i \in Hosts \ {d} : ~NodesEqual(i, d)

\* C31: when every pair has been compared, all tallies of all adjacent pairs
\* are zero exactly if any two nodes hold the same vector and payload for
\* every ID; and when exactly one node diverges, the pairs with a tally
\* above zero are the adjacent pairs that node is part of.
C31_AdjacentPairsSuffice ==
    Compared =>
        /\ (\A i \in AdjacentPairs : PairClean(i))
              <=> (\A i, j \in Hosts : NodesEqual(i, j))
        /\ \A d \in Hosts :
              OnlyDivergent(d) =>
                  \A i \in AdjacentPairs : ~PairClean(i) <=> d \in {i, i + 1}

\* the middle node diverges and both pairs show it
C31_Witness ==
    /\ x_pc = "returned"
    /\ OnlyDivergent(1)
    /\ \A i \in AdjacentPairs : ~PairClean(i)

\* the lists of the pair (x_i, x_i + 1) hold different IDs at position k
IdsDifferAt(k) == x_points[x_i + 1][k].id # x_points[x_i + 2][k].id

\* C32: the comparison of a position where the two lists hold different IDs
\* is a panic that leaves both tallies as they were; a panic happens at the
\* first such position of the pair and nowhere else; and after it
\* check_point_consistency takes no further step: nothing is compared again.
C32_IdMismatchIsHardFault ==
    /\ [][(x_pc = "compare" /\ IdsDifferAt(x_pos) /\ cons_vars' # cons_vars)
            => /\ x_pc' = "panicked"
               /\ UNCHANGED <<x_i, x_pos, wrong_vector_counts, wrong_payload_counts>>]_vars
    /\ [](x_pc = "panicked"
            => /\ IdsDifferAt(x_pos)
               /\ \A k \in 1 .. (x_pos - 1) : ~IdsDifferAt(k))
    /\ [][x_pc = "panicked" => UNCHANGED cons_vars]_vars

\* the second pair panicked at its second position
C32_Witness == x_pc = "panicked" /\ x_i = 1 /\ x_pos = 2

\* C33: a step of the main task inside check_points sends no upsert and no
\* delete and no transfer request: it leaves the round's mutations, the
\* transfer the store runs and the points the nodes hold as they are, in
\* failing cycles and between them as well.
C33_CheckIsReadOnly ==
    [][(InCheck /\ main_vars' # main_vars)
        => UNCHANGED <<issued_upserts, acked_deletes, deleted, upserted, batch_fail,
                       store_transfer, population, pc_tr, tr_trace>>]_vars

\* a check cycle after a failed one has asked its first node again
C33_Witness == pc_main = "check_peer" /\ peer = 1 /\ fail_cycles >= 1

\* the first n chunks of ids, one after the other
RECURSIVE ConcatChunks(_, _)
ConcatChunks(ids, n) ==
    IF n = 0 THEN <<>> ELSE ConcatChunks(ids, n - 1) \o Chunk(ids, n - 1)

\* the IDs of the chunks before chunk k
ChunksBefore(ids, k) == UNION {SeqToSet(Chunk(ids, j)) : j \in 0 .. (k - 1)}

\* the chunks of ids, in order, make up ids, and each holds 1..BATCH_SIZE IDs
ChunksPartition(ids) ==
    /\ ConcatChunks(ids, NumChunks(ids)) = ids
    /\ \A k \in 0 .. (NumChunks(ids) - 1) :
         Len(Chunk(ids, k)) >= 1 /\ Len(Chunk(ids, k)) <= BATCH_SIZE

\* C34: the batches of the delete range and of the upsert range of the round
\* partition the range in list order, each of 1 to BATCH_SIZE IDs; the loop
\* is at batch k only when the batches before k, and only they, have been
\* acknowledged, and it moves from a batch to the next one only.
C34_BatchesPartitionRange ==
    /\ [](ChunksPartition(delete_ids(SweepStart(round)))
           /\ ChunksPartition(upsert_ids(SweepStart(round))))
    /\ [](pc_main = "sweep_delete"
            => /\ batch < NumChunks(delete_ids(SweepStart(round)))
               /\ deleted = ChunksBefore(delete_ids(SweepStart(round)), batch)
               /\ upserted = {})
    /\ [](pc_main = "sweep_upsert"
            => /\ batch < NumChunks(upsert_ids(SweepStart(round)))
               /\ upserted = ChunksBefore(upsert_ids(SweepStart(round)), batch)
               /\ deleted = SeqToSet(delete_ids(SweepStart(round))))
    /\ [][(InWorkload /\ InWorkload' /\ pc_main' = pc_main)
            => batch' \in {batch, batch + 1}]_vars

\* the second upsert batch of a round with deletes is being sent
C34_Witness ==
    /\ pc_main = "sweep_upsert"
    /\ batch = 1
    /\ round >= 1
    /\ upserted = SeqToSet(Chunk(upsert_ids(SweepStart(round)), 0))

\* the checker waits in lock() for a permit it holds itself
CheckerSelfDeadlock ==
    /\ lock_owner = "checker"
    /\ \E k \in 1 .. Len(lock_waiters) : lock_waiters[k] = "checker"

\* C35: within one call check_points acquires the gate at most once, and not
\* before a cycle has failed; in a later failing cycle, with the guard held,
\* it passes the `is_none()` test without touching the mutex; it never
\* waits for a permit it holds itself.
C35_GateAcquiredAtMostOnce ==
    /\ [](gate_acquired <= 1)
    /\ [](gate_acquired = 1 => fail_cycles >= 1)
    /\ [](~CheckerSelfDeadlock)
    /\ [][(pc_main = "check_lock" /\ transfer_lock_guard /\ pc_main' # pc_main)
            => /\ pc_main' = "check_delay"
               /\ UNCHANGED <<lock_vars, gate_acquired, transfer_lock_guard>>]_vars

\* a second cycle has failed and the gate was acquired once
C35_Witness ==
    /\ pc_main = "check_delay"
    /\ fail_cycles >= 2
    /\ gate_acquired = 1
    /\ transfer_lock_guard

\* C36: a retry of a batch (the upsert or delete is sent again) goes to the
\* node chosen when the batch began and sends what the first attempt sent:
\* in touch_points the same points, built from the one read of the batch, so
\* no counter is raised a second time; in sweep_points the same batch of IDs.
C36_RetriesResendSameRequest ==
    /\ [][(c_pc = "touch_upsert" /\ c_pc' = "touch_upsert")
            => /\ c_retries_left' = c_retries_left - 1
               /\ UNCHANGED <<c_client, c_batch, c_points, c_payload_values, c_reads>>
               /\ \A id \in CounterChunk(c_batch) :
                    c_points'[id] = c_payload_values[id] + 1]_vars
    /\ [][(c_pc = "touch_read" /\ c_pc' = "touch_upsert")
            => UNCHANGED <<c_client, c_batch>>]_vars
    /\ [][(InWorkload /\ pc_main' = pc_main /\ batch' = batch /\ main_vars' # main_vars)
            => /\ retries_left' = retries_left - 1
               /\ UNCHANGED <<client_index, round, deleted, upserted>>]_vars

\* the upsert of a counter batch is about to be sent a second time
C36_Witness ==
    /\ c_pc = "touch_upsert"
    /\ c_retries_left = COUNTER_UPDATE_RETRIES - 2
    /\ c_client \in Hosts
    /\ \E id \in DOMAIN c_points : c_points[id] = c_payload_values[id] + 1

\* a check_points call of the counter harness is in progress
CounterCheckRunning == c_pc = "check"

\* the main task of the counter harness takes a step
CounterMainStep == <<c_pc, c_round, c_batch, c_peer, c_errors>>' # <<c_pc, c_round, c_batch, c_peer, c_errors>>

\* C37: in the counter harness a mismatch is never retried: within a round the
\* check goes through the nodes once and in order (a step of the check stays
\* on its node at the next chunk or moves to the next node, also after an
\* Err); after the last node the round either panics with "inconsistency"
\* (some node reported a mismatch) or ends (none did), and that panic happens
\* nowhere else; run_transfers never touches a gate, and while a check is in
\* progress its transfer request is enabled.
C37_CounterCheckOnceNoGate ==
    /\ [][(CounterCheckRunning /\ CounterMainStep /\ c_pc' # "panicked") =>
            /\ c_round' = c_round
            /\ \/ c_pc' = "check" /\ c_peer' = c_peer /\ c_batch' = c_batch + 1
                  /\ c_errors' = c_errors
               \/ c_pc' = "check" /\ c_peer' = c_peer + 1 /\ c_batch' = 0
               \/ c_pc' = "check_end" /\ c_peer' = c_peer
                  /\ c_peer = HostCount - 1
            /\ Len(c_errors') <= c_peer + 1]_vars
    /\ [][(c_pc = "check_end" /\ CounterMainStep) =>
            \/ c_errors # <<>> /\ c_pc' = "panicked" /\ c_panic' = "inconsistency"
            \/ c_errors = <<>> /\ c_pc' = "round_start" /\ c_round' = c_round + 1]_vars
    /\ [](c_panic = "inconsistency" =>
            c_errors # <<>> /\ c_peer = HostCount - 1 /\ c_batch = 0)
    /\ [](lock_owner = "none" /\ lock_waiters = <<>>
            /\ pc_tr \notin {"lock", "lock_wait", "holding"})
    /\ []((CounterCheckRunning /\ pc_tr = "request") => ENABLED (CounterAlive /\ TrRequest))

\* a node has reported a mismatch, the check of the next nodes goes on, and
\* run_transfers is about to send its request
C37_Witness ==
    /\ CounterCheckRunning
    /\ c_peer = HostCount - 1
    /\ c_errors = <<0>>
    /\ pc_tr = "request"
    /\ store_transfer = "idle"

\* check_points has returned and main has not yet matched its result
CheckReturned == pc_main = "check_returned"

\* the verdicts of the nodes in the cycle check_points ran last
LastCycleVerdicts == {verdicts[k] : k \in (Len(verdicts) - HostCount + 1) .. Len(verdicts)}

\* C38: check_points called with attempts = 0 runs no check cycle (it is
\* never at a node, at the end of a cycle, at the gate or in the retry
\* delay), never acquires the gate, and has returned Err with an empty error
\* list whenever it has returned; and whatever attempts is, check_points has
\* returned Ok only after a cycle in which every node passed.
C38_ZeroAttemptsIsErr ==
    /\ [](check_attempts = 0 =>
            /\ cycles = 0
            /\ verdicts = <<>>
            /\ gate_acquired = 0
            /\ ~transfer_lock_guard
            /\ lock_owner # "checker"
            /\ "checker" \notin SeqToSet(lock_waiters)
            /\ pc_main \notin {"check_peer", "check_cycle_end", "check_lock",
                                "check_lock_wait", "check_delay"}
            /\ check_result # "Ok"
            /\ errors = <<>>)
    /\ []((check_attempts = 0 /\ CheckReturned) => check_result = "Err")
    /\ []((CheckReturned /\ check_result = "Ok") =>
            /\ cycles >= 1
            /\ Len(verdicts) >= HostCount
            /\ LastCycleVerdicts = {"Ok"}
            /\ errors = <<>>)
    /\ [][(check_attempts = 0 /\ pc_main = "sweep_upsert" /\ pc_main' \notin {pc_main, "panicked"})
            => pc_main' = "check_returned" /\ check_result' = "Err" /\ errors' = <<>>]_vars

\* check_points(.., 0, ..) has returned Err without a cycle, in a round past
\* the first
C38_Witness ==
    /\ check_attempts = 0
    /\ CheckReturned
    /\ check_result = "Err"
    /\ errors = <<>>
    /\ cycles = 0
    /\ upserted # {}

\* the payload of id is there and equal on every adjacent node pair
EqualOnAdjacentPairs(payloads, id) ==
    \A w \in 1 .. (Len(payloads) - 1) :
        /\ id \in DOMAIN payloads[w]
        /\ id \in DOMAIN payloads[w + 1]
        /\ payloads[w][id] = payloads[w + 1][id]

\* one iteration of check_points' loop ends and the next begins
PayloadCycleEnds == y_pc = "fetched" /\ y_pc' = "loop"

\* C39: in check_points of list-inconsistent-payloads the working set ids
\* holds at most BATCH_SIZE IDs, none of them twice and none of them in
\* remaining; ids and remaining change only at the end of an iteration, where
\* an ID leaves ids only if its payload was equal on every adjacent node pair
\* in that iteration and an ID whose payload was not is in the next working
\* set; every ID is in remaining, in ids or was found consistent, and the
\* function has returned only with every ID of 0..POINT_COUNT found
\* consistent in some iteration.
C39_WorkingSetInvariant ==
    /\ [](/\ Len(y_ids) <= PAYLOAD_BATCH_SIZE
          /\ Cardinality(SeqToSet(y_ids)) = Len(y_ids)
          /\ SeqToSet(y_ids) \cap SeqToSet(y_remaining) = {}
          /\ SeqToSet(y_ids) \cup SeqToSet(y_remaining) \cup y_consistent
                = SeqToSet(PayloadIds))
    /\ [][PayloadCycleEnds =>
            \A k \in 1 .. Len(y_ids) :
                /\ y_ids[k] \notin SeqToSet(y_ids') =>
                       EqualOnAdjacentPairs(y_payloads, y_ids[k])
                /\ ~EqualOnAdjacentPairs(y_payloads, y_ids[k]) =>
                       y_ids[k] \in SeqToSet(y_ids')
                /\ y_ids[k] \in y_consistent' \ y_consistent =>
                       EqualOnAdjacentPairs(y_payloads, y_ids[k])]_vars
    /\ [][(<<y_ids, y_remaining, y_consistent>>' # <<y_ids, y_remaining, y_consistent>>)
            => PayloadCycleEnds \/ y_pc = "returned"]_vars
    /\ [](y_pc = "returned" =>
            /\ y_ids = <<>> /\ y_remaining = <<>>
            /\ y_consistent = SeqToSet(PayloadIds))

\* the payload of ID 2 differed in the first iteration: ID 2 is carried into the
\* next working set, which is filled up with ID 0 from remaining
C39_Witness ==
    /\ y_pc = "fetched"
    /\ y_ids = <<2, 0>>
    /\ y_remaining = <<>>
    /\ y_consistent = {1}
    /\ y_retry = 1
    /\ ~EqualOnAdjacentPairs(y_payloads, 2)

\* the retry loop of check_host is running
InRetryLoop == m_pc = "retry"

\* a get_points call of the retry loop has returned Ok
RetryAnswered == InRetryLoop /\ m_pc' # "failed" /\ miss_vars' # miss_vars

\* the retry loop is left with check_host going on
RetryLoopLeft == InRetryLoop /\ m_pc' \in {"scroll", "returned"}

\* the loop goes around once more with every ID still missing
RetryWithoutProgress == CheckHostRetry /\ m_pc' = "retry" /\ m_tmp_missing' = m_tmp_missing

\* C40: the retry loop of check_host has no attempt bound (however often the
\* IDs were asked for, below the number of calls followed, the loop can go
\* around again with all of them still missing); the IDs retried in an
\* iteration are among those of the iteration before; an answered get ends
\* the loop exactly when it returned every ID still missing, so the loop is
\* never left, and check_host never returns Ok, with an ID of the chunk that
\* no response has held (the only other way out is the `?` of a failed call,
\* which ends check_host with the error).
C40_RetryLoopUnbounded ==
    /\ []((InRetryLoop /\ m_retries < MaxHostRetries) => ENABLED RetryWithoutProgress)
    /\ [](InRetryLoop =>
            /\ m_tmp_missing # <<>>
            /\ SeqToSet(m_tmp_missing) \cap m_seen = {}
            /\ SeqToSet(m_tmp_missing) = SeqToSet(CheckHostChunk(m_batch)) \ m_seen)
    /\ [][(InRetryLoop /\ m_pc' = "retry") =>
            /\ SeqToSet(m_tmp_missing') \subseteq SeqToSet(m_tmp_missing)
            /\ m_batch' = m_batch]_vars
    /\ [][RetryAnswered =>
            (RetryLoopLeft <=> SeqToSet(m_tmp_missing) \subseteq m_seen')]_vars
    /\ [][(m_pc \in {"scroll", "retry"} /\ m_pc' \in {"scroll", "returned"}
             /\ miss_vars' # miss_vars)
            => SeqToSet(CheckHostChunk(m_batch)) \subseteq m_seen']_vars
    /\ [][(InRetryLoop /\ m_pc' # m_pc) =>
            m_pc' \in {"scroll", "returned", "failed"}]_vars

\* ID 1 was asked for MaxHostRetries times and no response has held it
C40_Witness ==
    /\ InRetryLoop
    /\ m_retries = MaxHostRetries
    /\ m_tmp_missing = <<1>>
    /\ m_seen = {0}
    /\ m_missing_ids = <<0, 1>>

====
